---------------------------- MODULE Spec2Model ----------------------------
(***************************************************************************)
(* A model of the lum service supervisor (src/src/service/service_manager.rs) *)
(* and of the pieces it drives: the Status machine (types.rs), the change-  *)
(* gated Observable that holds a service's status (event/observable.rs),    *)
(* the crash watchdog (service/watchdog.rs) and the attachment table of the *)
(* aggregate EventRepeater (event/event_repeater.rs).                       *)
(*                                                                         *)
(* Services are identified by their id.  Services 1..NumServices are the    *)
(* registry, in registration order; service NumServices+1 is a service      *)
(* object that was never given to the builder.  Callers are concurrent      *)
(* tasks that call the supervisor's public operations.  A caller's step is  *)
(* one stretch of code between two points where the task can be suspended   *)
(* on something another task controls: a service mutex, or the service's    *)
(* own start()/stop() future.  A status set is modelled by the value it     *)
(* stores (Observable::set stores before it dispatches); the repeater is    *)
(* modelled by the keys of its table of attached sources.                   *)
(*                                                                         *)
(* The parts around the single-service operations have specifications of    *)
(* their own: PassSpec (start_services / stop_services), BuilderSpec (the   *)
(* builder), EventSpec (Event: subscribers, channels, dispatch),            *)
(* ObservableSpec (Observable::set over an Event), RepeaterSpec (attach    *)
(* and the forwarding task), DetachSpec (attach and detach), SetLockSpec    *)
(* (the write-once cell), QuerySpec (get_service and status_overview),      *)
(* JoinSpec (Bot::join behind the aggregate status stream), RaceSpec (two   *)
(* calls for one service), WeakSpec (the supervisor's reference to itself), *)
(* StopForwardSpec (one attachment through a stop_service call), and        *)
(* StalledSpec and ChainSpec (the channels between a status update and the  *)
(* subscriber of the aggregate stream).  Each of them leaves the variables  *)
(* of the others at their first values.                                     *)
(***************************************************************************)
EXTENDS Naturals, Sequences, FiniteSets, TLC

\* Number of services given to the builder.
NumServices == 2

\* Number of tasks that call the supervisor concurrently.
NumCallers == 2

Callers == 1..NumCallers

\* ServiceManager.services: the registry, in registration order.
services == [i \in 1..NumServices |-> i]

\* A service object whose id no registered service has.
Unmanaged == NumServices + 1

AllServices == 1..(NumServices + 1)

Managed == {services[i] : i \in 1..Len(services)}

Priorities == {"Essential", "Optional"}

StatusTags ==
    {"Started", "Stopped", "Starting", "Stopping",
     "FailedToStart", "FailedToStop", "RuntimeError"}

\* enum Status: the failure variants carry a reason string.
Status(tag, reason) == [tag |-> tag, reason |-> reason]

Stopped == Status("Stopped", "")
Starting == Status("Starting", "")
Started == Status("Started", "")
Stopping == Status("Stopping", "")

\* impl PartialEq for Status: the variants are compared, the reasons are not.
StatusEq(a, b) == a.tag = b.tag

\* The value given to set() is compared and dispatched, but never stored.
ObservableSet_NotStored(current, value) == current

\* Observable::set, the stored value: an equal value is not stored (Unchanged),
\* a different one replaces the current value before it is dispatched.
ObservableSet(current, value) == IF StatusEq(current, value) THEN current ELSE value

\* What the future of start() / stop() can do under timeout(10 s, ..).
Outcomes == {"ok", "err", "timeout"}

\* What a background task can resolve with.
TaskResults == {"ok", "err"}

VARIABLES
    priority,          \* ServiceInfo.priority of each service (fixed at construction)
    hasTask,           \* whether the service's task() returns Some
    status,            \* the value of ServiceInfo.status (Observable<Status>)
    svcLock,           \* holder of each service's Mutex: a caller, or 0 when free
    background_tasks,  \* keys of ServiceManager.background_tasks
    watchdog,          \* the spawned Watchdog::run task of each service
    subscriptions,     \* keys of on_status_change.subscriptions (attached sources)
    callers            \* each calling task: its operation and where it stands in it

VARIABLES
    pass               \* the start_services() / stop_services() call in progress

VARIABLES
    builder_services,  \* ServiceManagerBuilder.services: the service objects kept so far
    builder_added,     \* the arguments of the with_service calls made so far, in order
    builder_pc,        \* "ready", "blocked" inside with_service, or "built"
    weak               \* ServiceManager.weak and the Arc it points to

VARIABLES
    ev_subscribers,    \* Event.subscribers of each event: the subscribers, in order
    ev_lock,           \* holder of each event's subscribers mutex: a task, or 0
    channel,           \* the bounded channel of each channel subscriber
    delivered,         \* per subscriber: the deliveries attempted so far, in order
    registered,        \* number of subscribers created so far
    calls,             \* number of dispatch() / set() calls made so far
    tasks              \* each task that dispatches: where it stands in its pass

VARIABLES
    obs_value,         \* Observable.value
    obs_lock,          \* holder of the mutex around Observable.value: a task, or 0
    set_log            \* the set() calls, in the order in which they took that mutex

VARIABLES
    forward_sub,       \* the subscriber the repeater holds on the source (0: none)
    forwarded,         \* the values the forwarding task has dispatched, in order
    attach_result,     \* what the last attach() call returned
    forward_task,      \* the forwarding task: the Receiver it owns, and its abort()
    detach_result      \* what the last detach() call returned, and when

VARIABLES
    setlock_data,      \* SetLock.data
    setlock_calls      \* the calls made on the SetLock, with what they returned

VARIABLES
    concrete_type,     \* the concrete type behind each service's dyn Service
    answer             \* what the last get_service() / status_overview() call returned

VARIABLES
    forwards,          \* per service: the channel and the forwarding task of its attachment
    join               \* the Bot::join call: its subscription, its tasks, its result

\* The variables of the supervisor's single-service operations.
svcVars ==
    <<priority, hasTask, status, svcLock, background_tasks, watchdog,
      subscriptions, callers>>

builderVars == <<builder_services, builder_added, builder_pc, weak>>

eventVars == <<ev_subscribers, ev_lock, channel, delivered, registered, calls, tasks>>

observableVars == <<obs_value, obs_lock, set_log>>

repeaterVars == <<forward_sub, forwarded, attach_result, forward_task, detach_result>>

setlockVars == <<setlock_data, setlock_calls>>

queryVars == <<concrete_type, answer>>

joinVars == <<forwards, join>>

\* The state of the parts that stand alone.
restVars == <<setlockVars, queryVars, joinVars>>

\* The state of the parts that the single-service operations never touch.
auxVars == <<pass, builderVars, eventVars, observableVars, repeaterVars, restVars>>

\* The same without the start_services() / stop_services() call in progress.
otherThanPass == <<builderVars, eventVars, observableVars, repeaterVars, restVars>>

\* All that the builder never touches.
otherThanBuilder == <<svcVars, pass, eventVars, observableVars, repeaterVars, restVars>>

\* All that an event and an observable never touch.
otherThanEvents == <<svcVars, pass, builderVars, repeaterVars, restVars>>

vars == <<svcVars, auxVars>>

IdleCaller ==
    [pc |-> "idle", op |-> "none", svc |-> 0, idx |-> 0, res |-> "none", out |-> "none"]

\* No start_services() / stop_services() call has been made.
NoPass == [kind |-> "none", results |-> <<>>, returned |-> FALSE]

\* No supervisor yet: no cell, no Arc, no set() and no init_service made.
NoWeak ==
    [cell |-> [some |-> FALSE, value |-> 0], strong |-> 0, set_results |-> <<>>,
     lookup |-> "none"]

\* ServiceManagerBuilder::new: an empty list of services.
NewBuilder ==
    /\ builder_services = <<>>
    /\ builder_added = <<>>
    /\ builder_pc = "ready"
    /\ weak = NoWeak

\* Number of subscribers that are created in all.
NumSubscribers == 3

\* Number of tasks that call dispatch() or set() concurrently.
NumDispatchers == 2

\* Number of dispatch() / set() calls made in all on an event that has subscribers
\* of every kind.
MaxCalls == 2

\* The buffer argument of open_channel: the capacity of a subscriber's channel.
ChannelBuffer == 1

\* The event that is dispatched on directly, and the event owned by a repeater.
Events == {"source", "repeater"}

SubscriberIds == 1..NumSubscribers

Dispatchers == 1..NumDispatchers

\* The task that EventRepeater::attach spawns for the source.
Forwarder == NumDispatchers + 1

Tasks == Dispatchers \cup {Forwarder}

\* A task that is not inside a dispatch() call.
IdleTask ==
    [pc |-> "idle", event |-> "source", value |-> 0, index |-> 0, errors |-> <<>>,
     to_remove |-> <<>>, attempted |-> <<>>, result |-> "none", set_result |-> "none"]

\* Event::new for each event, with no call made and no subscriber created.
NewEvents ==
    /\ ev_subscribers = [e \in Events |-> <<>>]
    /\ ev_lock = [e \in Events |-> 0]
    /\ channel = [n \in SubscriberIds |-> [open |-> FALSE, queue |-> <<>>]]
    /\ delivered = [n \in SubscriberIds |-> <<>>]
    /\ registered = 0
    /\ calls = 0
    /\ tasks = [d \in Tasks |->
                  IF d = Forwarder THEN [IdleTask EXCEPT !.pc = "unspawned"] ELSE IdleTask]

\* Observable::new, with Stopped as the first value.
NewObservable ==
    /\ obs_value = Stopped
    /\ obs_lock = 0
    /\ set_log = <<>>

\* EventRepeater::new: nothing is attached.
NewRepeater ==
    /\ forward_sub = 0
    /\ forwarded = <<>>
    /\ attach_result = "none"
    /\ forward_task = [receiver |-> 0, abort |-> "none"]
    /\ detach_result = [result |-> "none", calls |-> 0]

\* Option::None
None == [some |-> FALSE, value |-> 0]

\* Option::Some
Some(x) == [some |-> TRUE, value |-> x]

\* SetLock::new: no data, and no call made.
NewSetLock ==
    /\ setlock_data = None
    /\ setlock_calls = <<>>

\* Number of concrete types that implement Service.
NumTypes == 2

ServiceTypes == 1..NumTypes

\* No get_service() / status_overview() call has been made.
NoAnswer == [op |-> "none", returned |-> FALSE]

\* Services that are all of one type.
NewTypes == [s \in AllServices |-> CHOOSE ty \in ServiceTypes : TRUE]

NewQuery ==
    /\ concrete_type = NewTypes
    /\ answer = NoAnswer

\* A status observable that is not attached: no channel, no forwarding task.
NotForwarded == [attached |-> FALSE, queue |-> <<>>, pc |-> "none", value |-> Stopped]

\* Bot::join has not been called.
NoJoin ==
    [pc |-> "none", queue |-> <<>>, forwarded |-> {}, idx |-> 0, reason |-> "none",
     crashed |-> {}]

NewJoin ==
    /\ forwards = [s \in AllServices |-> NotForwarded]
    /\ join = NoJoin

\* The parts outside the single-service operations, before anything was done with
\* them.
AuxInit ==
    /\ pass = NoPass
    /\ NewBuilder
    /\ NewEvents
    /\ NewObservable
    /\ NewRepeater
    /\ NewSetLock
    /\ NewQuery
    /\ NewJoin

\* A supervisor whose services are all Optional, have no background task and were
\* never started.
ServicesAtRest ==
    /\ priority = [s \in AllServices |-> "Optional"]
    /\ hasTask = [s \in AllServices |-> FALSE]
    /\ status = [s \in AllServices |-> Stopped]
    /\ svcLock = [s \in AllServices |-> 0]
    /\ background_tasks = {}
    /\ watchdog = [s \in AllServices |-> "none"]
    /\ subscriptions = {}
    /\ callers = [c \in Callers |-> IdleCaller]

Init ==
    /\ AuxInit
    /\ priority \in {p \in [AllServices -> Priorities] : p[Unmanaged] = "Optional"}
    /\ hasTask \in {h \in [AllServices -> BOOLEAN] : h[Unmanaged] = FALSE}
    /\ status = [s \in AllServices |-> Stopped]
    /\ svcLock = [s \in AllServices |-> 0]
    /\ background_tasks = {}
    /\ watchdog = [s \in AllServices |-> "none"]
    /\ subscriptions = {}
    /\ callers = [c \in Callers |-> IdleCaller]

\* A call returns: the caller keeps the operation and its result until its next call.
Return(c, res, out) ==
    [callers EXCEPT ![c] = [pc |-> "idle", op |-> callers[c].op, svc |-> 0,
                            idx |-> 0, res |-> res, out |-> out]]

Enter(c, op, s, pc) ==
    [callers EXCEPT ![c] = [pc |-> pc, op |-> op, svc |-> s, idx |-> 1,
                            res |-> "none", out |-> "none"]]

At(c, pc) == [callers EXCEPT ![c].pc = pc]

(***************************************************************************)
(* ServiceManager::manages_service                                         *)
(***************************************************************************)

\* A comparison that holds for every registered service.
IdMatches_Always(i, service_id) == services[i] = services[i]

\* manages_service line 99: the registered service at position i has the id asked for.
IdMatches(i, service_id) == services[i] = service_id

\* manages_service as a whole: some registered service has this id.
manages_service(service_id) == \E i \in 1..Len(services) : IdMatches(i, service_id)

\* One turn of the loop of manages_service: lock the i-th registered service,
\* compare its id, unlock.  The call waits while that service's mutex is held.
manages_service_step(c) ==
    /\ callers[c].pc = "manages"
    /\ LET i == callers[c].idx
           id == callers[c].svc
       IN  /\ svcLock[services[i]] = 0
           /\ callers' =
                IF IdMatches(i, id) THEN At(c, "lock")
                ELSE IF i < Len(services) THEN [callers EXCEPT ![c].idx = i + 1]
                ELSE Return(c, "ServiceNotManaged", "none")
    /\ UNCHANGED <<priority, hasTask, status, svcLock, background_tasks, watchdog,
                   subscriptions>>
    /\ UNCHANGED auxVars

(***************************************************************************)
(* ServiceManager::start_service                                           *)
(***************************************************************************)

\* has_background_task_registered
has_background_task_registered(service_id) == service_id \in background_tasks

\* A check that lets the failure states through.
StartPrecondition_NotRunning(st) == st.tag \notin {"Started", "Starting", "Stopping"}

\* start_service line 119: only a Stopped service may be started.
StartPrecondition(st) == StatusEq(st, Stopped)

\* start_service line 111: the service is locked for the time of reading its id,
\* then manages_service runs.
start_service_call(c, s) ==
    /\ callers[c].pc = "idle"
    /\ svcLock[s] = 0
    /\ callers' = Enter(c, "start", s, "manages")
    /\ UNCHANGED <<priority, hasTask, status, svcLock, background_tasks, watchdog,
                   subscriptions>>
    /\ UNCHANGED auxVars

\* start_service lines 116-139: lock the service, check the preconditions, attach
\* the status event to the repeater, set Starting and invoke start() under the
\* timeout.  The service stays locked while start() is pending.
start_service_begin(c) ==
    /\ callers[c].pc = "lock"
    /\ callers[c].op = "start"
    /\ LET s == callers[c].svc
       IN  /\ svcLock[s] = 0
           /\ IF ~StartPrecondition(status[s])
              THEN /\ callers' = Return(c, "ServiceNotStopped", "none")
                   /\ UNCHANGED <<status, svcLock, subscriptions>>
              ELSE IF has_background_task_registered(s)
              THEN /\ callers' = Return(c, "BackgroundTaskAlreadyRunning", "none")
                   /\ UNCHANGED <<status, svcLock, subscriptions>>
              ELSE IF s \in subscriptions
              THEN /\ callers' = Return(c, "StatusAttachmentFailed", "none")
                   /\ UNCHANGED <<status, svcLock, subscriptions>>
              ELSE /\ subscriptions' = subscriptions \cup {s}
                   /\ status' = [status EXCEPT ![s] = ObservableSet(@, Starting)]
                   /\ svcLock' = [svcLock EXCEPT ![s] = c]
                   /\ callers' = At(c, "run")
    /\ UNCHANGED <<priority, hasTask, background_tasks, watchdog>>
    /\ UNCHANGED auxVars

\* Only a returned error is treated as a failure; an elapsed timeout is not.
InitServiceStatus_TimeoutIgnored(o) ==
    IF o = "err" THEN Status("FailedToStart", "error") ELSE Started

\* init_service lines 364-390: the status set for each outcome of timeout(start()).
InitServiceStatus(o) ==
    CASE o = "ok" -> Started
      [] o = "err" -> Status("FailedToStart", "error")
      [] o = "timeout" -> Status("FailedToStart", "deadline has elapsed")

\* init_service: what it returns for each outcome.
InitServiceResult(o) == IF o = "ok" THEN "Ok" ELSE "FailedToStartService"

\* What task() returns is not looked at.
SpawnsWatchdog_WithoutTask(s) == ~has_background_task_registered(s)

\* start_background_task lines 444-452: a watchdog is spawned and stored when no
\* entry exists for the id and task() returns Some.
SpawnsWatchdog(s) == ~has_background_task_registered(s) /\ hasTask[s]

\* start_service lines 139-145: start() resolved or timed out; init_service sets
\* the status; on success start_background_task runs; the call returns and the
\* service is unlocked.
start_service_resolve(c, o) ==
    /\ callers[c].pc = "run"
    /\ callers[c].op = "start"
    /\ LET s == callers[c].svc
       IN  /\ status' = [status EXCEPT ![s] = ObservableSet(@, InitServiceStatus(o))]
           /\ IF InitServiceResult(o) = "Ok" /\ SpawnsWatchdog(s)
              THEN /\ watchdog' = [watchdog EXCEPT ![s] = "pending"]
                   /\ background_tasks' = background_tasks \cup {s}
              ELSE UNCHANGED <<watchdog, background_tasks>>
           /\ svcLock' = [svcLock EXCEPT ![s] = 0]
           /\ callers' = Return(c, InitServiceResult(o), o)
    /\ UNCHANGED <<priority, hasTask, subscriptions>>
    /\ UNCHANGED auxVars

(***************************************************************************)
(* ServiceManager::stop_service                                            *)
(***************************************************************************)

\* No status check at all.
StopPrecondition_Any(st) == TRUE

\* A check for "not stopped" in place of "started".
StopPrecondition_NotStopped(st) == st.tag \notin {"Stopped", "Stopping"}

\* stop_service line 161: only a Started service may be stopped.
StopPrecondition(st) == StatusEq(st, Started)

\* The handle is dropped from the table without abort().
AbortBackgroundTask_NoAbort(s) == watchdog

\* stop_background_task lines 512-515, the task: the JoinHandle stored for the id
\* is aborted, which cancels the watchdog task wherever it is suspended.
AbortBackgroundTask(s) ==
    IF has_background_task_registered(s) THEN [watchdog EXCEPT ![s] = "none"]
    ELSE watchdog

\* The entry of the id stays in the table.
RemoveBackgroundTask_Keep(s) == background_tasks

\* stop_background_task lines 512-515, the table: the entry of the id is removed.
RemoveBackgroundTask(s) == background_tasks \ {s}

\* stop_service line 153: the service is locked for the time of reading its id,
\* then manages_service runs.
stop_service_call(c, s) ==
    /\ callers[c].pc = "idle"
    /\ svcLock[s] = 0
    /\ callers' = Enter(c, "stop", s, "manages")
    /\ UNCHANGED <<priority, hasTask, status, svcLock, background_tasks, watchdog,
                   subscriptions>>
    /\ UNCHANGED auxVars

\* stop_service lines 158-169: lock the service, check the precondition, cancel and
\* remove the background task, set Stopping and invoke stop() under the timeout.
\* The service stays locked while stop() is pending.
stop_service_begin(c) ==
    /\ callers[c].pc = "lock"
    /\ callers[c].op = "stop"
    /\ LET s == callers[c].svc
       IN  /\ svcLock[s] = 0
           /\ IF ~StopPrecondition(status[s])
              THEN /\ callers' = Return(c, "ServiceNotStarted", "none")
                   /\ UNCHANGED <<status, svcLock, background_tasks, watchdog>>
              ELSE /\ watchdog' = AbortBackgroundTask(s)
                   /\ background_tasks' = RemoveBackgroundTask(s)
                   /\ status' = [status EXCEPT ![s] = ObservableSet(@, Stopping)]
                   /\ svcLock' = [svcLock EXCEPT ![s] = c]
                   /\ callers' = At(c, "run")
    /\ UNCHANGED <<priority, hasTask, subscriptions>>
    /\ UNCHANGED auxVars

\* The timeout arm sets no status.
ShutdownServiceStatus_TimeoutUnrecorded(o) ==
    CASE o = "ok" -> Stopped
      [] o = "err" -> Status("FailedToStop", "error")
      [] o = "timeout" -> Stopping

\* shutdown_service lines 403-429: the status set for each outcome of timeout(stop()).
ShutdownServiceStatus(o) ==
    CASE o = "ok" -> Stopped
      [] o = "err" -> Status("FailedToStop", "error")
      [] o = "timeout" -> Status("FailedToStop", "deadline has elapsed")

\* shutdown_service: what it returns for each outcome.
ShutdownServiceResult(o) == IF o = "ok" THEN "Ok" ELSE "FailedToStopService"

\* stop_service lines 169-182: stop() resolved or timed out; shutdown_service sets
\* the status; on success the status event is detached from the repeater (detach
\* fails when it is not attached); the call returns and the service is unlocked.
stop_service_resolve(c, o) ==
    /\ callers[c].pc = "run"
    /\ callers[c].op = "stop"
    /\ LET s == callers[c].svc
       IN  /\ status' = [status EXCEPT ![s] = ObservableSet(@, ShutdownServiceStatus(o))]
           /\ svcLock' = [svcLock EXCEPT ![s] = 0]
           /\ IF ShutdownServiceResult(o) # "Ok"
              THEN /\ callers' = Return(c, ShutdownServiceResult(o), o)
                   /\ UNCHANGED subscriptions
              ELSE IF s \in subscriptions
              THEN /\ subscriptions' = subscriptions \ {s}
                   /\ callers' = Return(c, "Ok", o)
              ELSE /\ callers' = Return(c, "StatusDetachmentFailed", o)
                   /\ UNCHANGED subscriptions
    /\ UNCHANGED <<priority, hasTask, background_tasks, watchdog>>
    /\ UNCHANGED auxVars

(***************************************************************************)
(* The crash watchdog: Watchdog::run of the task spawned by                 *)
(* start_background_task.                                                  *)
(***************************************************************************)

\* Watchdog::run line 46, first half: the service's background task resolves.
task_resolve(s, r) ==
    /\ watchdog[s] = "pending"
    /\ watchdog' = [watchdog EXCEPT ![s] = IF r = "ok" THEN "resolved_ok" ELSE "resolved_err"]
    /\ UNCHANGED <<priority, hasTask, status, svcLock, background_tasks, subscriptions,
                   callers>>
    /\ UNCHANGED auxVars

\* Only a task that ended with an error marks the service as failed.
WatchdogStatus_OnlyErr(w) ==
    IF w = "resolved_ok" THEN Started
    ELSE Status("RuntimeError", "Background task ended with error")

\* start_background_task lines 462-491: the status the continuation sets for each
\* result of the task.
WatchdogStatus(w) ==
    IF w = "resolved_ok"
    THEN Status("RuntimeError", "Background task ended unexpectedly!")
    ELSE Status("RuntimeError", "Background task ended with error")

\* start_background_task lines 455-493: the appended continuation locks the service,
\* sets RuntimeError and unlocks; it waits while the service's mutex is held.  The
\* table entry of the task is left in place.
watchdog_continuation(s) ==
    /\ watchdog[s] \in {"resolved_ok", "resolved_err"}
    /\ svcLock[s] = 0
    /\ status' = [status EXCEPT ![s] = ObservableSet(@, WatchdogStatus(watchdog[s]))]
    /\ watchdog' = [watchdog EXCEPT ![s] = "finished"]
    /\ UNCHANGED <<priority, hasTask, svcLock, background_tasks, subscriptions, callers>>
    /\ UNCHANGED auxVars

(***************************************************************************)
(* ServiceManager::overall_status                                          *)
(***************************************************************************)

\* The priority is not looked at.
EssentialNotStarted_AnyPriority(s, st) == ~StatusEq(st[s], Started)

\* overall_status lines 243-250: the service at hand makes the result Unhealthy.
EssentialNotStarted(s, st) == priority[s] = "Essential" /\ ~StatusEq(st[s], Started)

\* overall_status over the statuses st, from position i of the registry on.
RECURSIVE OverallStatusFrom(_, _)
OverallStatusFrom(i, st) ==
    IF i > Len(services) THEN "Healthy"
    ELSE IF EssentialNotStarted(services[i], st) THEN "Unhealthy"
    ELSE OverallStatusFrom(i + 1, st)

\* overall_status() evaluated on the current statuses.
overall_status == OverallStatusFrom(1, status)

overall_status_call(c) ==
    /\ callers[c].pc = "idle"
    /\ callers' = Enter(c, "overall", 0, "iter")
    /\ UNCHANGED <<priority, hasTask, status, svcLock, background_tasks, watchdog,
                   subscriptions>>
    /\ UNCHANGED auxVars

\* One turn of the loop of overall_status: lock the i-th registered service, look at
\* its priority and status, unlock.  The call waits while that mutex is held.
overall_status_step(c) ==
    /\ callers[c].pc = "iter"
    /\ LET i == callers[c].idx
       IN  /\ svcLock[services[i]] = 0
           /\ callers' =
                IF EssentialNotStarted(services[i], status) THEN Return(c, "Unhealthy", "none")
                ELSE IF i < Len(services) THEN [callers EXCEPT ![c].idx = i + 1]
                ELSE Return(c, "Healthy", "none")
    /\ UNCHANGED <<priority, hasTask, status, svcLock, background_tasks, watchdog,
                   subscriptions>>
    /\ UNCHANGED auxVars

(***************************************************************************)
(* The system                                                              *)
(***************************************************************************)

Next ==
    \/ \E c \in Callers, s \in AllServices : start_service_call(c, s)
    \/ \E c \in Callers, s \in AllServices : stop_service_call(c, s)
    \/ \E c \in Callers : manages_service_step(c)
    \/ \E c \in Callers : start_service_begin(c)
    \/ \E c \in Callers, o \in Outcomes : start_service_resolve(c, o)
    \/ \E c \in Callers : stop_service_begin(c)
    \/ \E c \in Callers, o \in Outcomes : stop_service_resolve(c, o)
    \/ \E s \in AllServices, r \in TaskResults : task_resolve(s, r)
    \/ \E s \in AllServices : watchdog_continuation(s)
    \/ \E c \in Callers : overall_status_call(c)
    \/ \E c \in Callers : overall_status_step(c)

Spec == Init /\ [][Next]_vars

\* The scheduler runs a spawned watchdog task whose continuation can proceed, and
\* the service mutex is handed to it once it is free.
FairSpec == Spec /\ \A s \in Managed : WF_vars(watchdog_continuation(s))

(***************************************************************************)
(* Properties                                                              *)
(***************************************************************************)

\* The seven transitions of the status machine.
AllowedTransitions ==
    {<<"Stopped", "Starting">>, <<"Starting", "Started">>,
     <<"Starting", "FailedToStart">>, <<"Started", "Stopping">>,
     <<"Stopping", "Stopped">>, <<"Stopping", "FailedToStop">>,
     <<"Started", "RuntimeError">>}

C2_StartRejected ==
    [][\A c \in Callers :
         ( /\ callers[c].pc = "lock"
           /\ callers[c].op = "start"
           /\ callers'[c] # callers[c]
           /\ status[callers[c].svc].tag # "Stopped" )
         => /\ callers'[c].pc = "idle"
            /\ callers'[c].res = "ServiceNotStopped"
            /\ UNCHANGED <<status, svcLock, background_tasks, watchdog, subscriptions>>]_vars

\* A start_service call was rejected with ServiceNotStopped.
C2_Witness ==
    \E c \in Callers :
        /\ callers[c].pc = "idle"
        /\ callers[c].op = "start"
        /\ callers[c].res = "ServiceNotStopped"

\* C3: when stop_service reaches its status check on a registered service whose
\* status is not Started, it returns ServiceNotStarted without invoking stop(),
\* cancels and removes no background-task handle, and leaves the statuses and the
\* repeater's attachments as they were.
C3_StopRejected ==
    [][\A c \in Callers :
         ( /\ callers[c].pc = "lock"
           /\ callers[c].op = "stop"
           /\ callers'[c] # callers[c]
           /\ status[callers[c].svc].tag # "Started" )
         => /\ callers'[c].pc = "idle"
            /\ callers'[c].res = "ServiceNotStarted"
            /\ UNCHANGED <<status, svcLock, background_tasks, watchdog, subscriptions>>]_vars

\* A stop_service call was rejected with ServiceNotStarted while a finished
\* watchdog's handle was still in the table.
C3_Witness ==
    \E c \in Callers :
        /\ callers[c].pc = "idle"
        /\ callers[c].op = "stop"
        /\ callers[c].res = "ServiceNotStarted"
        /\ background_tasks # {}

\* C4: a start_service or stop_service call for a service whose id is not in the
\* registry only walks the registry and then returns ServiceNotManaged; none of
\* its steps changes a status, the background-task table, a watchdog or the
\* repeater's attachments.
C4_NotManaged ==
    [][\A c \in Callers :
         ( /\ callers[c].op \in {"start", "stop"}
           /\ callers[c].svc \in AllServices \ Managed
           /\ callers'[c] # callers[c] )
         => /\ \/ callers'[c].pc = "manages"
               \/ /\ callers'[c].pc = "idle"
                  /\ callers'[c].res = "ServiceNotManaged"
            /\ UNCHANGED <<status, svcLock, background_tasks, watchdog, subscriptions>>]_vars

\* Both a start_service and a stop_service call returned ServiceNotManaged.
C4_Witness ==
    \E c, d \in Callers :
        /\ callers[c].pc = "idle" /\ callers[c].op = "start"
        /\ callers[c].res = "ServiceNotManaged"
        /\ callers[d].pc = "idle" /\ callers[d].op = "stop"
        /\ callers[d].res = "ServiceNotManaged"
        /\ status[Unmanaged] = Stopped

\* C5: when start() resolves in a start_service call that passed its checks:
\* on success the status becomes Started and the call returns Ok; on a returned
\* error and on an elapsed timeout alike the status becomes FailedToStart and the
\* call returns FailedToStartService.  In each case the call returns at once and
\* gives up the service: start() is not invoked again.
C5_StartOutcome ==
    [][\A c \in Callers :
         ( /\ callers[c].pc = "run"
           /\ callers[c].op = "start"
           /\ callers'[c] # callers[c] )
         => LET s == callers[c].svc
                o == callers'[c].out
            IN  /\ callers'[c].pc = "idle"
                /\ svcLock'[s] = 0
                /\ o \in Outcomes
                /\ o = "ok" => /\ status'[s] = Started
                               /\ callers'[c].res = "Ok"
                /\ o \in {"err", "timeout"}
                      => /\ status'[s].tag = "FailedToStart"
                         /\ callers'[c].res = "FailedToStartService"]_vars

\* A start() ran into the timeout: the status is FailedToStart and the call
\* returned FailedToStartService; another start() succeeded.
C5_Witness ==
    \E c, d \in Callers :
        /\ callers[c].pc = "idle" /\ callers[c].op = "start"
        /\ callers[c].out = "timeout" /\ callers[c].res = "FailedToStartService"
        /\ callers[d].pc = "idle" /\ callers[d].op = "start"
        /\ callers[d].out = "ok" /\ callers[d].res = "Ok"
        /\ \E s \in Managed : status[s] = Status("FailedToStart", "deadline has elapsed")

\* C6: when stop() resolves in a stop_service call that passed its checks: on
\* success the status becomes Stopped; on a returned error and on an elapsed
\* timeout the status becomes FailedToStop and the call returns
\* FailedToStopService, the status being FailedToStop in the state in which the
\* call has returned.
C6_StopOutcome ==
    [][\A c \in Callers :
         ( /\ callers[c].pc = "run"
           /\ callers[c].op = "stop"
           /\ callers'[c] # callers[c] )
         => LET s == callers[c].svc
                o == callers'[c].out
            IN  /\ callers'[c].pc = "idle"
                /\ o \in Outcomes
                /\ o = "ok" => status'[s] = Stopped
                /\ o \in {"err", "timeout"}
                      => /\ status'[s].tag = "FailedToStop"
                         /\ callers'[c].res = "FailedToStopService"]_vars

\* A stop() ran into the timeout: the status is FailedToStop and the call returned
\* FailedToStopService.
C6_Witness ==
    \E c \in Callers :
        /\ callers[c].pc = "idle" /\ callers[c].op = "stop"
        /\ callers[c].out = "timeout" /\ callers[c].res = "FailedToStopService"
        /\ \E s \in Managed : status[s] = Status("FailedToStop", "deadline has elapsed")

\* The watchdog's task has resolved and its continuation has not yet run.
Resolved(s) == watchdog[s] \in {"resolved_ok", "resolved_err"}

\* C7: once the background task of a started service has resolved, with success or
\* with an error, the service's status eventually is RuntimeError, unless a
\* stop_service call passed its checks first (status Stopping): a resolved task
\* does not stay unhandled for ever, and the step that handles it leaves the
\* status RuntimeError or Stopping; and a status that
\* is RuntimeError stays RuntimeError in every later state, in each of which
\* overall_status() is Unhealthy if the service is Essential.
C7_CrashDetected ==
    /\ \A s \in Managed : []<>(~Resolved(s))
    /\ [][\A s \in Managed :
            Resolved(s) /\ ~Resolved(s)'
               => status'[s].tag \in {"RuntimeError", "Stopping"}]_vars
    /\ [][\A s \in Managed :
            status[s].tag = "RuntimeError"
               => /\ status'[s].tag = "RuntimeError"
                  /\ priority[s] = "Essential"
                        => /\ overall_status = "Unhealthy"
                           /\ overall_status' = "Unhealthy"]_vars

\* The task of an Essential service ended without error, its watchdog ran, and the
\* service is in RuntimeError.
C7_Witness ==
    \E s \in Managed :
        /\ priority[s] = "Essential"
        /\ watchdog[s] = "finished"
        /\ status[s] = Status("RuntimeError", "Background task ended unexpectedly!")
        /\ overall_status = "Unhealthy"

C9_TableIffStarted ==
    \A s \in Managed :
        s \in background_tasks <=> (status[s].tag = "Started" /\ hasTask[s])

\* C10: overall_status() is Healthy exactly when every registered Essential service
\* is Started, and replacing the status of an Optional service by any other status
\* does not change the result.
C10_OverallStatus ==
    /\ overall_status = "Healthy"
         <=> \A i \in 1..Len(services) :
                priority[services[i]] = "Essential" => status[services[i]].tag = "Started"
    /\ \A s \in Managed :
         priority[s] = "Optional"
            => \A tag \in StatusTags :
                  OverallStatusFrom(1, [status EXCEPT ![s] = Status(tag, "")]) = overall_status

\* An Essential service is Started, an Optional one failed to start, and the result
\* is Healthy.
C10_Witness ==
    \E s, u \in Managed :
        /\ priority[s] = "Essential" /\ status[s] = Started
        /\ priority[u] = "Optional" /\ status[u].tag = "FailedToStart"
        /\ overall_status = "Healthy"

(***************************************************************************)
(* ServiceManager::start_services / stop_services                          *)
(*                                                                         *)
(* One task calls start_services() and stop_services(); each call walks the *)
(* registry and awaits start_service / stop_service for one service after   *)
(* the other, pushing every result.  The calls it makes are the actions of  *)
(* the single-service operations above, made by the task PassCaller.        *)
(***************************************************************************)

\* The task that calls start_services() / stop_services().
PassCaller == CHOOSE c \in Callers : \A d \in Callers : c <= d

\* The loop ends at the first call that did not return Ok.
PassFinished_FirstErr(results) ==
    \/ Len(results) = Len(services)
    \/ Len(results) > 0 /\ results[Len(results)].res # "Ok"

\* lines 188-195 / 201-208: the for loop has run over every registered service.
PassFinished(results) == Len(results) = Len(services)

\* The registry is walked from its end.
PassService_Reversed(results) == services[Len(services) - Len(results)]

\* lines 188 / 201: the service the for loop is at, after the results pushed so far.
PassService(results) == services[Len(results) + 1]

\* A start_services() / stop_services() call is between its entry and its return.
PassRunning == pass.kind # "none" /\ ~pass.returned

\* The call the pass awaits at the moment has returned and its result is not pushed yet.
PassCallReturned ==
    callers[PassCaller].pc = "idle" /\ callers[PassCaller].res # "none"

\* The pass is not inside a call and holds no result to push.
PassBetweenCalls ==
    callers[PassCaller].pc = "idle" /\ callers[PassCaller].res = "none"

\* lines 185-187 / 198-200: the call is made, with an empty result list.
services_call(kind) ==
    /\ ~PassRunning
    /\ callers[PassCaller].pc = "idle"
    /\ pass' = [kind |-> kind, results |-> <<>>, returned |-> FALSE]
    /\ callers' = [callers EXCEPT ![PassCaller] = IdleCaller]
    /\ UNCHANGED <<priority, hasTask, status, svcLock, background_tasks, watchdog,
                   subscriptions>>
    /\ UNCHANGED otherThanPass

\* line 189: start_services calls start_service for the service the loop is at.
start_services_iterate ==
    /\ PassRunning
    /\ pass.kind = "start"
    /\ PassBetweenCalls
    /\ ~PassFinished(pass.results)
    /\ start_service_call(PassCaller, PassService(pass.results))

\* line 202: stop_services calls stop_service for the service the loop is at.
stop_services_iterate ==
    /\ PassRunning
    /\ pass.kind = "stop"
    /\ PassBetweenCalls
    /\ ~PassFinished(pass.results)
    /\ stop_service_call(PassCaller, PassService(pass.results))

\* lines 191 / 204: results.push(result), for the call that has just returned.
services_push ==
    /\ PassRunning
    /\ PassCallReturned
    /\ pass' = [pass EXCEPT !.results =
                  Append(@, [svc |-> PassService(pass.results),
                             res |-> callers[PassCaller].res])]
    /\ callers' = [callers EXCEPT ![PassCaller] = IdleCaller]
    /\ UNCHANGED <<priority, hasTask, status, svcLock, background_tasks, watchdog,
                   subscriptions>>
    /\ UNCHANGED otherThanPass

\* lines 195 / 208: the loop is over and the result list is returned.
services_return ==
    /\ PassRunning
    /\ PassBetweenCalls
    /\ PassFinished(pass.results)
    /\ pass' = [pass EXCEPT !.returned = TRUE]
    /\ UNCHANGED <<priority, hasTask, status, svcLock, background_tasks, watchdog,
                   subscriptions, callers>>
    /\ UNCHANGED otherThanPass

PassNext ==
    \/ \E kind \in {"start", "stop"} : services_call(kind)
    \/ start_services_iterate
    \/ stop_services_iterate
    \/ services_push
    \/ services_return
    \/ manages_service_step(PassCaller)
    \/ start_service_begin(PassCaller)
    \/ \E o \in Outcomes : start_service_resolve(PassCaller, o)
    \/ stop_service_begin(PassCaller)
    \/ \E o \in Outcomes : stop_service_resolve(PassCaller, o)
    \/ \E s \in AllServices, r \in TaskResults : task_resolve(s, r)
    \/ \E s \in AllServices : watchdog_continuation(s)

\* The supervisor driven by start_services() / stop_services() calls of one task,
\* with the crash watchdogs running beside it.
PassSpec == Init /\ [][PassNext]_vars

\* C11: a returned start_services() / stop_services() call holds exactly one result
\* per registered service, the i-th result being that of the i-th registered
\* service, whatever the earlier calls returned; and after a start_services() in
\* which the start of an Essential service failed, overall_status() is Unhealthy.
C11_OneResultPerService ==
    /\ \A i \in 1..Len(pass.results) :
          /\ i <= Len(services)
          /\ pass.results[i].svc = services[i]
    /\ pass.returned =>
          /\ Len(pass.results) = Len(services)
          /\ pass.kind = "start" =>
                \A i \in 1..Len(pass.results) :
                   /\ pass.results[i].res = "FailedToStartService"
                   /\ priority[services[i]] = "Essential"
                   => overall_status = "Unhealthy"

\* A start_services() over two Essential services has returned one error followed by
\* one Ok.
C11_Witness ==
    /\ pass.returned
    /\ pass.kind = "start"
    /\ \A s \in Managed : priority[s] = "Essential"
    /\ \E i, j \in 1..Len(pass.results) :
          /\ i < j
          /\ pass.results[i].res = "FailedToStartService"
          /\ pass.results[j].res = "Ok"
    /\ overall_status = "Unhealthy"

\* The state a service must be in for the pass to act on it.
PassSourceTag == IF pass.kind = "start" THEN "Stopped" ELSE "Started"

\* The pass is done with the i-th registered service: its call has returned and its
\* status is neither Starting nor Stopping.
PassDoneWith(i) ==
    /\ \/ Len(pass.results) >= i
       \/ Len(pass.results) = i - 1 /\ PassCallReturned
    /\ status[services[i]].tag \notin {"Starting", "Stopping"}

\* C12 as stated: during a pass, a service in the source state of the pass stays in
\* it for as long as the pass is not done with the service registered before it.
C12_NoOverlap ==
    [][\A i \in 1..(Len(services) - 1) :
          /\ PassRunning
          /\ ~PassDoneWith(i)
          /\ status[services[i + 1]].tag = PassSourceTag
          => status'[services[i + 1]].tag = PassSourceTag]_vars

\* C12, amended: during a pass, a service in the source state of the pass does not
\* leave it for as long as the pass is not done with the service registered before
\* it, except that the crash watchdog may turn a Started service into RuntimeError.
C12_NoOverlapButWatchdog ==
    [][\A i \in 1..(Len(services) - 1) :
          /\ PassRunning
          /\ ~PassDoneWith(i)
          /\ status[services[i + 1]].tag = PassSourceTag
          => \/ status'[services[i + 1]].tag = PassSourceTag
             \/ /\ status[services[i + 1]].tag = "Started"
                /\ status'[services[i + 1]].tag = "RuntimeError"
                /\ watchdog[services[i + 1]] \in {"resolved_ok", "resolved_err"}]_vars

\* A pass is done with one service and has moved the next one out of its source state.
C12_Witness ==
    /\ PassRunning
    /\ \E i \in 1..(Len(services) - 1) :
          /\ PassDoneWith(i)
          /\ Len(pass.results) = i
          /\ status[services[i + 1]].tag \in {"Starting", "Stopping"}

(***************************************************************************)
(* ServiceManagerBuilder::with_service / build                             *)
(*                                                                         *)
(* The builder is given service objects (Arc<Mutex<dyn Service>>).  Two     *)
(* different objects can carry the same id, and the same object can be      *)
(* given more than once.                                                    *)
(***************************************************************************)

\* Number of service objects that can be given to the builder.
NumObjects == 3

\* Number of with_service calls made on one builder.
MaxAdds == 5

ServiceObjects == 1..NumObjects

\* info().id of a service object: the last object carries the id of the first.
ObjectId(o) == IF o = NumObjects THEN 1 ELSE o

\* with_service line 35 and 38: the call holds the lock of the object it was
\* given while it locks every kept object in turn.  The mutex is not reentrant:
\* when the object is among the kept ones the call waits for a lock that it holds
\* itself.
LocksItself(kept, o) == \E i \in 1..Len(kept) : kept[i] = o

\* with_service lines 36-43: found, after the loop over the kept objects.
FoundId(kept, o) == \E i \in 1..Len(kept) : ObjectId(kept[i]) = ObjectId(o)

\* with_service lines 34-59.
with_service(o) ==
    /\ builder_pc = "ready"
    /\ Len(builder_added) < MaxAdds
    /\ builder_added' = Append(builder_added, o)
    /\ IF LocksItself(builder_services, o)
       THEN /\ builder_pc' = "blocked"
            /\ UNCHANGED builder_services
       ELSE IF FoundId(builder_services, o)
       THEN UNCHANGED <<builder_services, builder_pc>>
       ELSE /\ builder_services' = Append(builder_services, o)
            /\ UNCHANGED builder_pc
    /\ UNCHANGED weak
    /\ UNCHANGED otherThanBuilder

\* The cell is left as it is.
OnceLockSet_Ignored(cell, x) == cell

\* OnceLock::set, the cell: the argument is stored only into an empty cell.
OnceLockSet(cell, x) == IF cell.some THEN cell ELSE [some |-> TRUE, value |-> x]

\* OnceLock::set, the result: Err when the cell was set already.
OnceLockSetResult(cell) == IF cell.some THEN "Err" ELSE "Ok"

\* build lines 61-80: the kept objects become ServiceManager.services; the
\* supervisor is made with an empty cell (line 63) and moved into an Arc (69), and
\* a Weak of that Arc is set into the cell (70-72).  The Arc is returned.
build ==
    /\ builder_pc = "ready"
    /\ builder_pc' = "built"
    /\ LET new == NoWeak.cell
       IN  weak' = [cell |-> OnceLockSet(new, 1), strong |-> 1,
                    set_results |-> <<OnceLockSetResult(new)>>, lookup |-> "none"]
    /\ UNCHANGED <<builder_services, builder_added>>
    /\ UNCHANGED otherThanBuilder

BuilderInit == ServicesAtRest /\ AuxInit

BuilderNext ==
    \/ \E o \in ServiceObjects : with_service(o)
    \/ build

\* One builder, given any sequence of at most MaxAdds service objects and then built.
BuilderSpec == BuilderInit /\ [][BuilderNext]_vars

\* The first position of builder_added that holds an object with this id.
FirstAdded(id) ==
    CHOOSE i \in 1..Len(builder_added) :
       /\ ObjectId(builder_added[i]) = id
       /\ \A j \in 1..(i - 1) : ObjectId(builder_added[j]) # id

\* C13: whatever with_service calls were made, every one of them has returned
\* (a later object with a known id is dropped, no error), no two kept services have
\* the same id, every id that was added is kept once, by the first object added with
\* it, and the kept services stand in the order in which they were added.
C13_FirstAddedWins ==
    /\ builder_pc # "blocked"
    /\ \A i, j \in 1..Len(builder_services) :
          ObjectId(builder_services[i]) = ObjectId(builder_services[j]) => i = j
    /\ \A k \in 1..Len(builder_added) :
          \E i \in 1..Len(builder_services) :
             builder_services[i] = builder_added[FirstAdded(ObjectId(builder_added[k]))]
    /\ \A i, j \in 1..Len(builder_services) :
          i < j => FirstAdded(ObjectId(builder_services[i]))
                      < FirstAdded(ObjectId(builder_services[j]))

(***************************************************************************)
(* Event: open_channel / register_callback / dispatch                      *)
(*                                                                         *)
(* Subscribers are numbered in the order in which they are created.  A      *)
(* channel subscriber owns the Sender of a bounded channel whose Receiver   *)
(* is held by whoever subscribed; a closure subscriber is a callback that   *)
(* returns Ok or an error each time it is called.  A task's step inside     *)
(* dispatch() is one turn of the loop over the subscribers: sender.send()   *)
(* is a point where the task is suspended until the channel has capacity.   *)
(***************************************************************************)

\* The subscriber list can be taken at any time.
SubscribersLockFree_Unlocked(e) == TRUE

\* self.subscribers.lock().await returns: no task holds the mutex of the list.
SubscribersLockFree(e) == ev_lock[e] = 0

Subscriber(n, kind, remove_on_error) ==
    [id |-> n, kind |-> kind, remove_on_error |-> remove_on_error]

\* open_channel lines 46-65: a channel of ChannelBuffer slots is made and a
\* subscriber holding its Sender is pushed under the lock of the list.
open_channel(e, remove_on_error) ==
    /\ registered < NumSubscribers
    /\ SubscribersLockFree(e)
    /\ registered' = registered + 1
    /\ ev_subscribers' =
         [ev_subscribers EXCEPT ![e] =
            Append(@, Subscriber(registered + 1, "channel", remove_on_error))]
    /\ channel' = [channel EXCEPT ![registered + 1] = [open |-> TRUE, queue |-> <<>>]]
    /\ UNCHANGED <<ev_lock, delivered, calls, tasks, observableVars>>
    /\ UNCHANGED otherThanEvents

\* register_callback lines 67-83: a subscriber holding the closure is pushed under
\* the lock of the list.
register_callback(e, remove_on_error) ==
    /\ registered < NumSubscribers
    /\ SubscribersLockFree(e)
    /\ registered' = registered + 1
    /\ ev_subscribers' =
         [ev_subscribers EXCEPT ![e] =
            Append(@, Subscriber(registered + 1, "closure", remove_on_error))]
    /\ UNCHANGED <<ev_lock, channel, delivered, calls, tasks, observableVars>>
    /\ UNCHANGED otherThanEvents

\* dispatch lines 85-89: the call is made; errors and subscribers_to_remove are empty.
EnterDispatch(d, e, v) ==
    [tasks EXCEPT ![d] =
       [pc |-> "lock", event |-> e, value |-> v, index |-> 0, errors |-> <<>>,
        to_remove |-> <<>>, attempted |-> <<>>, result |-> "none",
        set_result |-> "none"]]

dispatch_call(d, e, v) ==
    /\ tasks[d].pc \in {"idle", "returned"}
    /\ calls' = calls + 1
    /\ tasks' = EnterDispatch(d, e, v)
    /\ UNCHANGED <<ev_subscribers, ev_lock, channel, delivered, registered,
                   observableVars>>
    /\ UNCHANGED otherThanEvents

\* dispatch line 91: the lock of the subscriber list is taken; the loop starts at
\* the first subscriber.
dispatch_lock(d) ==
    /\ tasks[d].pc = "lock"
    /\ SubscribersLockFree(tasks[d].event)
    /\ ev_lock' = [ev_lock EXCEPT ![tasks[d].event] = d]
    /\ tasks' = [tasks EXCEPT ![d].pc = "deliver", ![d].index = 1]
    /\ UNCHANGED <<ev_subscribers, channel, delivered, registered, calls,
                   observableVars>>
    /\ UNCHANGED otherThanEvents

\* tokio mpsc Sender::send, as dispatch line 97 awaits it: it returns an error when
\* the Receiver is gone, and Ok once the value is in the channel; while the channel
\* is full it returns nothing.
SendReturns(n, ok) ==
    IF channel[n].open THEN ok /\ Len(channel[n].queue) < ChannelBuffer ELSE ~ok

\* A failed delivery ends the loop.
NextIndex_BreakOnError(index, ok, len) == IF ok THEN index + 1 ELSE len + 1

\* dispatch line 92: the loop goes on with the next subscriber, whatever the
\* subscriber at hand returned.
NextIndex(index, ok, len) == index + 1

\* Every failed subscriber is marked.
MarksForRemoval_AnyFailure(sub, ok) == ~ok

\* dispatch lines 109-115 and 134-140: the index of a failed subscriber is pushed
\* to subscribers_to_remove when the subscriber has remove_on_error.
MarksForRemoval(sub, ok) == ~ok /\ sub.remove_on_error

\* dispatch lines 92-146: one turn of the loop.  The value is sent into the
\* subscriber's channel, or its closure is called with it; a failure is pushed to
\* errors and, for a subscriber with remove_on_error, to subscribers_to_remove.
dispatch_deliver(d) ==
    /\ tasks[d].pc = "deliver"
    /\ tasks[d].index <= Len(ev_subscribers[tasks[d].event])
    /\ LET t == tasks[d]
           subs == ev_subscribers[t.event]
           sub == subs[t.index]
       IN  \E ok \in BOOLEAN :
              /\ sub.kind = "channel" => SendReturns(sub.id, ok)
              /\ channel' =
                   IF sub.kind = "channel" /\ ok
                   THEN [channel EXCEPT ![sub.id].queue = Append(@, t.value)]
                   ELSE channel
              /\ delivered' =
                   [delivered EXCEPT ![sub.id] = Append(@, [v |-> t.value, ok |-> ok])]
              /\ tasks' =
                   [tasks EXCEPT ![d] =
                      [t EXCEPT !.index = NextIndex(t.index, ok, Len(subs)),
                                !.attempted = Append(@, sub.id),
                                !.errors = IF ok THEN @ ELSE Append(@, sub.id),
                                !.to_remove = IF MarksForRemoval(sub, ok)
                                              THEN Append(@, t.index) ELSE @]]
    /\ UNCHANGED <<ev_subscribers, ev_lock, registered, calls, observableVars>>
    /\ UNCHANGED otherThanEvents

\* Vec::remove
RemoveAt(subs, i) == SubSeq(subs, 1, i - 1) \o SubSeq(subs, i + 1, Len(subs))

\* dispatch lines 148-150: the marked indexes are removed, the highest first.
RECURSIVE RemoveIndexes(_, _)
RemoveIndexes(subs, indexes) ==
    IF indexes = <<>> THEN subs
    ELSE RemoveIndexes(RemoveAt(subs, indexes[Len(indexes)]),
                       SubSeq(indexes, 1, Len(indexes) - 1))

\* dispatch lines 152-156
DispatchResult(errors) == IF errors = <<>> THEN "Ok" ELSE "Err"

\* dispatch lines 146-157: the loop is over; the marked subscribers are removed,
\* the lock of the list is released and the call returns.
dispatch_finish(d) ==
    /\ tasks[d].pc = "deliver"
    /\ tasks[d].index > Len(ev_subscribers[tasks[d].event])
    /\ ev_subscribers' =
         [ev_subscribers EXCEPT ![tasks[d].event] = RemoveIndexes(@, tasks[d].to_remove)]
    /\ ev_lock' = [ev_lock EXCEPT ![tasks[d].event] = 0]
    /\ tasks' = [tasks EXCEPT ![d].pc = "returned",
                              ![d].result = DispatchResult(tasks[d].errors)]
    /\ UNCHANGED <<channel, delivered, registered, calls, observableVars>>
    /\ UNCHANGED otherThanEvents

\* The value stays at the head of the channel.
Dequeue_Keep(queue) == queue

\* Receiver::recv: the value at the head of the channel is taken out.
Dequeue(queue) == Tail(queue)

\* The holder of a subscription's Receiver receives the next value.
recv(n) ==
    /\ channel[n].open
    /\ channel[n].queue # <<>>
    /\ channel' = [channel EXCEPT ![n].queue = Dequeue(@)]
    /\ UNCHANGED <<ev_subscribers, ev_lock, delivered, registered, calls, tasks,
                   observableVars>>
    /\ UNCHANGED otherThanEvents

\* The holder of a subscription's Receiver drops it: the channel is closed.
close_receiver(n) ==
    /\ channel[n].open
    /\ channel' = [channel EXCEPT ![n] = [open |-> FALSE, queue |-> <<>>]]
    /\ UNCHANGED <<ev_subscribers, ev_lock, delivered, registered, calls, tasks,
                   observableVars>>
    /\ UNCHANGED otherThanEvents

EventInit == ServicesAtRest /\ AuxInit

EventNext ==
    \/ \E r \in BOOLEAN : open_channel("source", r)
    \/ \E r \in BOOLEAN : register_callback("source", r)
    \/ \E d \in Dispatchers : calls < MaxCalls /\ dispatch_call(d, "source", calls + 1)
    \/ \E d \in Dispatchers : dispatch_lock(d)
    \/ \E d \in Dispatchers : dispatch_deliver(d)
    \/ \E d \in Dispatchers : dispatch_finish(d)
    \/ \E n \in SubscriberIds : recv(n)
    \/ \E n \in SubscriberIds : close_receiver(n)

\* One event with subscribers that come and fail at any time, dispatched on by
\* concurrent tasks; the k-th dispatch() call made carries the value k.
EventSpec == EventInit /\ [][EventNext]_vars

(***************************************************************************)
(* Observable::set                                                         *)
(*                                                                         *)
(* An Observable<Status> whose on_change event is the event "source".       *)
(***************************************************************************)

\* The values given to set(): two of them differ in their reason only.
ObservableValues ==
    {Stopped, Started, Status("FailedToStart", "error"),
     Status("FailedToStart", "deadline has elapsed")}

\* No value is taken as equal to the current one.
ObservableUnchanged_Never(current, value) == FALSE

\* set line 48: current_value == value, by the PartialEq of the value type.
ObservableUnchanged(current, value) == StatusEq(current, value)

\* set lines 44-55: the mutex of the value is taken and the value compared with the
\* current one.  An equal value returns Unchanged at once.  Any other value is
\* stored, and dispatch() is called on on_change with the mutex still held.
set_call(d, v) ==
    /\ tasks[d].pc \in {"idle", "returned"}
    /\ obs_lock = 0
    /\ calls < MaxCalls
    /\ calls' = calls + 1
    /\ IF ObservableUnchanged(obs_value, v)
       THEN /\ tasks' = [tasks EXCEPT ![d] =
                           [IdleTask EXCEPT !.pc = "returned",
                                            !.set_result = "Unchanged"]]
            /\ UNCHANGED <<obs_value, obs_lock>>
       ELSE /\ obs_value' = ObservableSet(obs_value, v)
            /\ obs_lock' = d
            /\ tasks' = EnterDispatch(d, "source", v)
    /\ set_log' = Append(set_log, [task |-> d, value |-> v, previous |-> obs_value,
                                   dispatched |-> tasks'[d].pc = "lock"])
    /\ UNCHANGED <<ev_subscribers, ev_lock, channel, delivered, registered>>
    /\ UNCHANGED otherThanEvents

\* set lines 57-60
ObservableResult(dispatch_result) ==
    IF dispatch_result = "Ok" THEN "ChangedOk" ELSE "ChangedErr"

\* set lines 55-61: dispatch() has returned; set returns Changed with its result
\* and the mutex of the value is released.
set_return(d) ==
    /\ tasks[d].pc = "returned"
    /\ obs_lock = d
    /\ obs_lock' = 0
    /\ tasks' = [tasks EXCEPT ![d].set_result = ObservableResult(tasks[d].result)]
    /\ UNCHANGED <<obs_value, set_log, ev_subscribers, ev_lock, channel, delivered,
                   registered, calls>>
    /\ UNCHANGED otherThanEvents

ObservableInit == ServicesAtRest /\ AuxInit

ObservableNext ==
    \/ \E d \in Dispatchers, v \in ObservableValues : set_call(d, v)
    \/ \E d \in Dispatchers : set_return(d)
    \/ \E r \in BOOLEAN : register_callback("source", r)
    \/ \E d \in Dispatchers : dispatch_lock(d)
    \/ \E d \in Dispatchers : dispatch_deliver(d)
    \/ \E d \in Dispatchers : dispatch_finish(d)

\* One observable, set by concurrent tasks, with closure subscribers on its event.
ObservableSpec == ObservableInit /\ [][ObservableNext]_vars

\* The task d makes a set() call in this step.
SetCalledBy(d) ==
    /\ Len(set_log') = Len(set_log) + 1
    /\ set_log'[Len(set_log')].task = d

\* C14: a set(v) call with v equal to the current value returns Unchanged, enters no
\* dispatch and leaves the stored value; with any other v it stores v and enters a
\* dispatch of v, and returns Changed with the result of that dispatch.  A dispatch
\* is entered only in a step that changes the stored value.
C14_SetDispatchesOnChange ==
    [][\A d \in Dispatchers :
          /\ SetCalledBy(d) =>
                LET v == set_log'[Len(set_log')].value
                IN  IF StatusEq(obs_value, v)
                    THEN /\ tasks'[d].set_result = "Unchanged"
                         /\ tasks'[d].pc = "returned"
                         /\ obs_value' = obs_value
                         /\ delivered' = delivered
                    ELSE /\ obs_value' = v
                         /\ tasks'[d].pc = "lock"
                         /\ tasks'[d].value = v
                         /\ tasks'[d].set_result = "none"
          /\ tasks[d].pc # "lock" /\ tasks'[d].pc = "lock" => obs_value' # obs_value
          /\ tasks'[d].set_result # tasks[d].set_result
                /\ tasks'[d].set_result \notin {"none", "Unchanged"}
                => /\ tasks[d].pc = "returned"
                   /\ tasks'[d].set_result
                         = IF tasks[d].errors = <<>> THEN "ChangedOk" ELSE "ChangedErr"]_vars

\* Both outcomes have happened: one set() returned Unchanged, another one returned
\* Changed with the errors of a dispatch in which a subscriber failed.
C14_Witness ==
    \E d, f \in Dispatchers :
       /\ tasks[d].set_result = "Unchanged"
       /\ tasks[f].set_result = "ChangedErr"
       /\ tasks[f].errors # <<>>

\* C15 as stated: of two set() calls that follow each other with equal values,
\* exactly one dispatches, and the second returns Unchanged (it does not dispatch).
C15_TwiceDispatchesOnce ==
    \A k \in 1..(Len(set_log) - 1) :
       StatusEq(set_log[k].value, set_log[k + 1].value)
          => /\ ~set_log[k + 1].dispatched
             /\ set_log[k].dispatched

\* C15, amended: of two set() calls that follow each other with equal values, the
\* second returns Unchanged and does not dispatch, and the first dispatches exactly
\* when its value differs from the value held before it: the two calls dispatch
\* once when the first one changes the value, and not at all when it does not.
C15_TwiceDispatchesAtMostOnce ==
    \A k \in 1..(Len(set_log) - 1) :
       StatusEq(set_log[k].value, set_log[k + 1].value)
          => /\ ~set_log[k + 1].dispatched
             /\ set_log[k].dispatched <=> ~StatusEq(set_log[k].previous, set_log[k].value)

\* Two set() calls with equal values have followed each other, the first of them
\* changing the value, and both have returned.
C15_Witness ==
    /\ obs_lock = 0
    /\ \E k \in 1..(Len(set_log) - 1) :
          /\ StatusEq(set_log[k].value, set_log[k + 1].value)
          /\ set_log[k].dispatched
          /\ tasks[set_log[k + 1].task].set_result = "Unchanged"

\* The ids of the subscribers of a list, in the order of the list.
IdsOf(subs) == [i \in 1..Len(subs) |-> subs[i].id]

\* The delivery of the value v to the subscriber n was attempted and failed.
FailedDelivery(n, v) ==
    \E k \in 1..Len(delivered[n]) : delivered[n][k] = [v |-> v, ok |-> FALSE]

\* The number of deliveries of the value v to the subscriber n that were attempted.
Deliveries(n, v) == Cardinality({k \in 1..Len(delivered[n]) : delivered[n][k].v = v})

\* The task d ends its dispatch pass in this step.
DispatchFinishes(d) == tasks[d].pc = "deliver" /\ tasks'[d].pc = "returned"

\* C16: while a dispatch pass runs it has attempted one delivery to each subscriber
\* before its index, in registration order; when it ends it has attempted exactly
\* one delivery to every subscriber of the list, failed ones before it or not; it
\* returns Ok when none of them failed, and otherwise as many errors as subscribers
\* failed in the pass.
C16_DeliversToEverySubscriber ==
    [][\A d \in Dispatchers :
          LET t == tasks[d]
              subs == ev_subscribers[t.event]
          IN  /\ t.pc = "deliver" =>
                    /\ t.attempted = SubSeq(IdsOf(subs), 1, t.index - 1)
                    /\ \A i, j \in 1..Len(t.attempted) :
                          i < j => t.attempted[i] < t.attempted[j]
              /\ DispatchFinishes(d) =>
                    /\ t.attempted = IdsOf(subs)
                    /\ \A n \in SubscriberIds :
                          Deliveries(n, t.value)
                             = IF \E i \in 1..Len(subs) : subs[i].id = n THEN 1 ELSE 0
                    /\ Len(t.errors)
                          = Cardinality({n \in SubscriberIds : FailedDelivery(n, t.value)})
                    /\ tasks'[d].result = "Ok" <=> t.errors = <<>>
                    /\ tasks'[d].result = "Err" <=> t.errors # <<>>
                    /\ tasks'[d].errors = t.errors]_vars

\* A pass over three subscribers has returned: the first failed, the last received
\* the value, and the call returned one error.
C16_Witness ==
    \E d \in Dispatchers :
       LET t == tasks[d]
       IN  /\ t.pc = "returned"
           /\ t.result = "Err"
           /\ Len(t.attempted) = NumSubscribers
           /\ t.errors = <<t.attempted[1]>>
           /\ [v |-> t.value, ok |-> TRUE]
                 = delivered[t.attempted[NumSubscribers]][Len(delivered[t.attempted[NumSubscribers]])]

\* The subscriber n is in the list of the event e.
Subscribed(e, n) == \E i \in 1..Len(ev_subscribers[e]) : ev_subscribers[e][i].id = n

\* The subscriber n was created and is in no list any more.
Removed(n) == n <= registered /\ \A e \in Events : ~Subscribed(e, n)

\* What a pass that dispatched v leaves of the list subs.
Survivors(subs, v) ==
    LET Stays(sub) == ~(FailedDelivery(sub.id, v) /\ sub.remove_on_error)
    IN  SelectSeq(subs, Stays)

\* C17: the step that ends a dispatch pass removes from the list exactly the
\* subscribers that failed in the pass and have remove_on_error, and keeps the
\* others in their order; every subscriber in the list when a pass ends was
\* delivered to in that pass (so the ones kept by one pass are delivered to by the
\* next); a removed subscriber stays removed and is not delivered to again.
C17_RemovesFailedOnRequest ==
    [][/\ \A d \in Dispatchers :
             DispatchFinishes(d) =>
                LET t == tasks[d]
                    subs == ev_subscribers[t.event]
                IN  /\ ev_subscribers'[t.event] = Survivors(subs, t.value)
                    /\ \A i \in 1..Len(subs) : Deliveries(subs[i].id, t.value) = 1
       /\ \A n \in SubscriberIds :
             Removed(n) => /\ delivered'[n] = delivered[n]
                           /\ \A e \in Events : ~Subscribed(e, n)']_vars

\* One subscriber was removed after a failure; another one failed too, has no
\* remove_on_error, is still in the list and was delivered to by a later pass.
C17_Witness ==
    \E n, m \in SubscriberIds :
       /\ Removed(n)
       /\ delivered[n] # <<>>
       /\ \E i \in 1..Len(ev_subscribers["source"]) :
             /\ ev_subscribers["source"][i].id = m
             /\ ~ev_subscribers["source"][i].remove_on_error
       /\ \E k \in 1..Len(delivered[m]) :
             /\ ~delivered[m][k].ok
             /\ delivered[m][k].v = delivered[n][Len(delivered[n])].v
             /\ k < Len(delivered[m])

\* The dispatch pass of the task d stands at a channel subscriber whose Receiver is
\* alive and whose channel is full.
AtFullChannel(d) ==
    /\ tasks[d].pc = "deliver"
    /\ tasks[d].index <= Len(ev_subscribers[tasks[d].event])
    /\ LET sub == ev_subscribers[tasks[d].event][tasks[d].index]
       IN  /\ sub.kind = "channel"
           /\ channel[sub.id].open
           /\ Len(channel[sub.id].queue) = ChannelBuffer

\* C18: a dispatch pass that stands at a channel subscriber whose queue is full goes
\* on at once, without waiting for the queue to drain: its next turn of the loop
\* can be taken in that very state, and it counts the delivery as failed.
C18_FullQueueIsFailure ==
    \A d \in Dispatchers :
       AtFullChannel(d) =>
          /\ ENABLED dispatch_deliver(d)
          /\ ENABLED (/\ dispatch_deliver(d)
                      /\ Len(tasks'[d].errors) = Len(tasks[d].errors) + 1)

\* The place of the value v among the deliveries attempted to the subscriber n (0
\* when it is not among them).
Place(n, v) ==
    IF \E k \in 1..Len(delivered[n]) : delivered[n][k].v = v
    THEN CHOOSE k \in 1..Len(delivered[n]) : delivered[n][k].v = v
    ELSE 0

\* The values of the deliveries attempted to the subscriber n that were also
\* attempted to the subscriber m, in the order in which n got them.
ValuesAlsoAt(n, m) ==
    LET AlsoAt(entry) == Place(m, entry.v) > 0
        entries == SelectSeq(delivered[n], AlsoAt)
    IN  [k \in 1..Len(entries) |-> entries[k].v]

\* Each subscriber was delivered each value at most once, and any two subscribers
\* that were delivered the same values got them in the same order.
SameOrderEverywhere ==
    /\ \A n \in SubscriberIds :
          \A j, k \in 1..Len(delivered[n]) :
             delivered[n][j].v = delivered[n][k].v => j = k
    /\ \A n, m \in SubscriberIds :
          n < m => ValuesAlsoAt(n, m) = ValuesAlsoAt(m, n)

\* C19: a task inside the loop of dispatch holds the lock of the subscriber list,
\* so only one task is inside the loop of an event at a time; while it is there
\* the list does not change, so no subscriber comes into the list in the middle of
\* a pass; every step leaves each subscriber with each value delivered at most
\* once, and any two subscribers with the values they both got in the same order.
C19_PassHoldsListLock ==
    [][/\ \A d \in Dispatchers :
             /\ tasks'[d].pc = "deliver" => ev_lock'[tasks'[d].event] = d
             /\ tasks[d].pc = "deliver" /\ ~DispatchFinishes(d)
                   => ev_subscribers'[tasks[d].event] = ev_subscribers[tasks[d].event]
       /\ SameOrderEverywhere']_vars

\* Two dispatch() calls were made concurrently and the one made second took the
\* lock first: two subscribers got its value before the other one, and a
\* subscriber added between the two passes got the value of the later pass only.
C19_Witness ==
    \E n, m, l \in SubscriberIds :
       /\ n # m
       /\ Place(n, 1) > Place(n, 2) /\ Place(n, 2) > 0
       /\ Place(m, 1) > Place(m, 2) /\ Place(m, 2) > 0
       /\ Place(l, 1) > 0 /\ Place(l, 2) = 0

(***************************************************************************)
(* EventRepeater::attach and the forwarding task                           *)
(*                                                                         *)
(* The repeater owns the event "repeater".  Attaching the event "source"    *)
(* subscribes a channel to it and spawns a task that receives from that     *)
(* channel and dispatches every value on the repeater's event.              *)
(***************************************************************************)

\* Number of values dispatched on the source of a repeater.
SourceValues == 3

\* The task that dispatches on the source.
SourceDispatcher == CHOOSE d \in Dispatchers : \A f \in Dispatchers : d <= f

\* The never-taken answer to "is this source in the table".
AlreadyAttached_Never(e) == FALSE

\* attach lines 113-119: the source's id is a key of the table already.
AlreadyAttached(e) == e \in subscriptions

\* The task was never spawned, or it was dropped after an abort().
TaskGone(d) == tasks[d].pc \in {"unspawned", "aborted"}

\* The task is at an .await that can return Pending: receiver.recv(), the lock of
\* the subscriber list, or the send into a subscriber's channel.  The call of a
\* subscriber's closure and the end of dispatch() are no such points.
AtAwait(d) ==
    \/ tasks[d].pc \in {"idle", "returned", "lock"}
    \/ /\ tasks[d].pc = "deliver"
       /\ tasks[d].index <= Len(ev_subscribers[tasks[d].event])
       /\ ev_subscribers[tasks[d].event][tasks[d].index].kind = "channel"

\* The runtime polls the task: no abort() found it suspended.
Polled(d) == d = Forwarder => forward_task.abort # "suspended"

\* attach lines 93-136: an attached event is refused with AlreadyAttached; any
\* other is subscribed to by a channel with remove_on_error, the forwarding task is
\* spawned and the event's id is inserted into the table of subscriptions.
attach ==
    /\ IF AlreadyAttached("source")
       THEN /\ attach_result' = "AlreadyAttached"
            /\ UNCHANGED <<subscriptions, forward_sub, ev_subscribers, channel,
                           registered, tasks, forward_task>>
       ELSE /\ registered < NumSubscribers
            /\ TaskGone(Forwarder)
            /\ SubscribersLockFree("source")
            /\ registered' = registered + 1
            /\ ev_subscribers' =
                 [ev_subscribers EXCEPT !["source"] =
                    Append(@, Subscriber(registered + 1, "channel", TRUE))]
            /\ channel' = [channel EXCEPT ![registered + 1] =
                             [open |-> TRUE, queue |-> <<>>]]
            /\ forward_sub' = registered + 1
            /\ forward_task' = [receiver |-> registered + 1, abort |-> "none"]
            /\ tasks' = [tasks EXCEPT ![Forwarder] = IdleTask]
            /\ subscriptions' = subscriptions \cup {"source"}
            /\ attach_result' = "Ok"
    /\ UNCHANGED <<priority, hasTask, status, svcLock, background_tasks, watchdog,
                   callers>>
    /\ UNCHANGED <<ev_lock, delivered, calls, forwarded, detach_result>>
    /\ UNCHANGED <<pass, builderVars, observableVars, restVars>>

\* attach lines 129-130: the forwarding task receives the next value of the
\* source and calls dispatch with it on the repeater's event.
forward_recv ==
    /\ tasks[Forwarder].pc \in {"idle", "returned"}
    /\ Polled(Forwarder)
    /\ LET rx == forward_task.receiver
       IN  /\ rx # 0
           /\ channel[rx].open
           /\ channel[rx].queue # <<>>
           /\ channel' = [channel EXCEPT ![rx].queue = Dequeue(@)]
           /\ tasks' = EnterDispatch(Forwarder, "repeater", Head(channel[rx].queue))
           /\ forwarded' = Append(forwarded, Head(channel[rx].queue))
    /\ UNCHANGED <<ev_subscribers, ev_lock, delivered, registered, calls,
                   forward_sub, attach_result, forward_task, detach_result,
                   observableVars>>
    /\ UNCHANGED <<svcVars, pass, builderVars, restVars>>

\* JoinHandle::abort as detach line 150 calls it: the task is marked as cancelled
\* and abort() returns.  A task that is suspended at an .await is not polled again;
\* a task that a worker thread is polling at that moment runs on.
Abort(mode) == [forward_task EXCEPT !.abort = mode]

\* detach lines 138-153: the entry of the source is taken out of the table and its
\* task aborted; a source without an entry is refused with NotAttached.
detach ==
    /\ IF ~AlreadyAttached("source")
       THEN /\ detach_result' = [result |-> "NotAttached", calls |-> calls]
            /\ UNCHANGED <<subscriptions, forward_sub, forward_task>>
       ELSE /\ subscriptions' = subscriptions \ {"source"}
            /\ forward_sub' = 0
            /\ \E mode \in {"suspended", "running"} :
                  /\ mode = "suspended" => AtAwait(Forwarder)
                  /\ forward_task' = Abort(mode)
            /\ detach_result' = [result |-> "Ok", calls |-> calls]
    /\ UNCHANGED <<priority, hasTask, status, svcLock, background_tasks, watchdog,
                   callers>>
    /\ UNCHANGED <<forwarded, attach_result, eventVars>>
    /\ UNCHANGED <<pass, builderVars, observableVars, restVars>>

\* The runtime drops an aborted task at the first .await at which it is not running:
\* the Receiver it owns is dropped, which closes the channel, and so is the guard of
\* the subscriber list if the task is inside dispatch().
task_cancelled ==
    /\ forward_task.abort # "none"
    /\ ~TaskGone(Forwarder)
    /\ AtAwait(Forwarder)
    /\ tasks' = [tasks EXCEPT ![Forwarder].pc = "aborted"]
    /\ channel' = [channel EXCEPT ![forward_task.receiver] =
                     [open |-> FALSE, queue |-> <<>>]]
    /\ ev_lock' = [e \in Events |-> IF ev_lock[e] = Forwarder THEN 0 ELSE ev_lock[e]]
    /\ forward_task' = [receiver |-> 0, abort |-> "none"]
    /\ UNCHANGED <<ev_subscribers, delivered, registered, calls, observableVars>>
    /\ UNCHANGED <<forward_sub, forwarded, attach_result, detach_result>>
    /\ UNCHANGED <<svcVars, pass, builderVars, restVars>>

RepeaterInit == ServicesAtRest /\ AuxInit

RepeaterNext ==
    \/ attach
    \/ forward_recv
    \/ \E r \in BOOLEAN : open_channel("repeater", r)
    \/ \E r \in BOOLEAN : register_callback("repeater", r)
    \/ calls < SourceValues /\ dispatch_call(SourceDispatcher, "source", calls + 1)
    \/ \E d \in Tasks : dispatch_lock(d)
    \/ \E d \in Tasks : dispatch_deliver(d)
    \/ \E d \in Tasks : dispatch_finish(d)
    \/ \E n \in SubscriberIds \ {forward_sub} : recv(n)
    \/ \E n \in SubscriberIds \ {forward_sub} : close_receiver(n)

\* A repeater with subscribers of its own and one source, on which one task
\* dispatches the values 1, 2, .. one after the other.
RepeaterSpec == RepeaterInit /\ [][RepeaterNext]_vars

\* The values of a sequence of deliveries.
ValuesOf(log) == [k \in 1..Len(log) |-> log[k].v]

\* The values follow each other without a gap, a repetition or a swap.
Consecutive(values) == \A k \in 1..(Len(values) - 1) : values[k + 1] = values[k] + 1

\* C20: what the source has delivered to the attached repeater is every value
\* dispatched on it since the attachment, in dispatch order; the forwarding task
\* has dispatched exactly these values on the repeater's event, in this order, but
\* for those still waiting in its channel; and a subscriber of the repeater is
\* delivered the forwarded values one by one in this order, up to the latest one.
C20_ForwardsInOrder ==
    forward_sub # 0 =>
       LET sent == ValuesOf(delivered[forward_sub])
           subs == ev_subscribers["repeater"]
       IN  /\ \A k \in 1..Len(delivered[forward_sub]) : delivered[forward_sub][k].ok
           /\ Consecutive(sent)
           /\ tasks[SourceDispatcher].pc = "returned" /\ sent # <<>>
                 => sent[Len(sent)] = tasks[SourceDispatcher].value
           /\ forwarded \o channel[forward_sub].queue = sent
           /\ \A i \in 1..Len(subs) :
                 LET got == ValuesOf(delivered[subs[i].id])
                 IN  /\ Consecutive(got)
                     /\ tasks[Forwarder].pc = "returned" /\ got # <<>>
                           => got[Len(got)] = tasks[Forwarder].value

\* The source has dispatched three values since the attachment; all three were
\* forwarded and a subscriber of the repeater has received them.
C20_Witness ==
    /\ forward_sub # 0
    /\ forwarded = <<1, 2, 3>>
    /\ tasks[Forwarder].pc = "returned"
    /\ \E i \in 1..Len(ev_subscribers["repeater"]) :
          LET log == delivered[ev_subscribers["repeater"][i].id]
          IN  /\ ValuesOf(log) = <<1, 2, 3>>
              /\ \A k \in 1..Len(log) : log[k].ok

(***************************************************************************)
(* EventRepeater::detach                                                   *)
(*                                                                         *)
(* A repeater with closure subscribers, whose source is attached and        *)
(* detached at any time while a task dispatches on it.                      *)
(***************************************************************************)

DetachInit == ServicesAtRest /\ AuxInit

DetachNext ==
    \/ attach
    \/ detach
    \/ task_cancelled
    \/ forward_recv
    \/ \E r \in BOOLEAN : register_callback("repeater", r)
    \/ calls < SourceValues /\ dispatch_call(SourceDispatcher, "source", calls + 1)
    \/ \E d \in Tasks : Polled(d) /\ dispatch_lock(d)
    \/ \E d \in Tasks : Polled(d) /\ dispatch_deliver(d)
    \/ \E d \in Tasks : Polled(d) /\ dispatch_finish(d)

DetachSpec == DetachInit /\ [][DetachNext]_vars

\* The source is not attached, and the last detach() call returned Ok.
Detached == ~AlreadyAttached("source") /\ detach_result.result = "Ok"

\* C21: once detach(source) has returned, no subscriber of the repeater is
\* delivered a value that was dispatched on the source after that return (the
\* values are numbered by the dispatch calls; detach_result.calls calls were made
\* when detach returned).
C21_NothingForwardedAfterDetach ==
    Detached =>
       \A n \in SubscriberIds :
          Subscribed("repeater", n) =>
             \A k \in 1..Len(delivered[n]) : delivered[n][k].v <= detach_result.calls

\* The table has an entry for the source exactly when it holds a subscription for
\* it; that subscription is a channel subscriber of the source, found there once,
\* and the task of the entry owns the Receiver of that channel and is not aborted.
OneEntry ==
    /\ "source" \in subscriptions <=> forward_sub # 0
    /\ forward_sub # 0 =>
          /\ Cardinality({i \in 1..Len(ev_subscribers["source"]) :
                             ev_subscribers["source"][i].id = forward_sub}) = 1
          /\ forward_task = [receiver |-> forward_sub, abort |-> "none"]
          /\ ~TaskGone(Forwarder)

\* C22: the table of the repeater holds at most one entry for the source, with one
\* subscription and one task.  An attach() of the attached source returns
\* AlreadyAttached and a detach() of a source that is not attached returns
\* NotAttached; a call that returns one of the two found the source attached,
\* respectively not attached, and changed neither the table nor the subscriber list
\* of the source.
C22_AttachedAtMostOnce ==
    /\ OneEntry
    /\ [][/\ OneEntry'
          /\ ("source" \in subscriptions /\ attach_result' # attach_result)
                => attach_result' = "AlreadyAttached"
          /\ ("source" \notin subscriptions /\ detach_result' # detach_result)
                => detach_result'.result = "NotAttached"
          /\ \/ attach_result' = "AlreadyAttached" /\ attach_result' # attach_result
             \/ detach_result'.result = "NotAttached" /\ detach_result' # detach_result
             => /\ attach_result' # attach_result => "source" \in subscriptions
                /\ detach_result' # detach_result => "source" \notin subscriptions
                /\ UNCHANGED <<subscriptions, forward_sub, forward_task, ev_subscribers,
                               tasks, channel>>]_vars

\* The source was attached, detached and attached again: the subscriber of the
\* first attachment is gone from the source, the one of the second has been
\* delivered a value.  The last attach() was refused with AlreadyAttached and the
\* last detach() with NotAttached.
C22_Witness ==
    /\ "source" \in subscriptions
    /\ attach_result = "AlreadyAttached"
    /\ detach_result.result = "NotAttached"
    /\ delivered[forward_sub] # <<>>
    /\ \E n \in SubscriberIds :
          n < forward_sub /\ delivered[n] # <<>> /\ Removed(n)

(***************************************************************************)
(* SetLock (src/src/setlock.rs): a cell that is written once.               *)
(***************************************************************************)

\* Number of values that can be put into a SetLock.
NumValues == 3

\* Number of calls made on a SetLock.
MaxSetLockCalls == 4

SetLockValues == 1..NumValues

\* Every set() stores its argument.
SetLockStores_Always(data) == TRUE

\* set lines 28-30: the data is stored only when there is none yet.
SetLockStores(data) == ~data.some

\* is_set
is_set == setlock_data.some

\* get: the data, if there is some.
get == setlock_data

\* A call is recorded with its argument, if it has one, and with what it
\* returned: Ok or AlreadySet, or the Option that get() returned.
Called(op, arg, result, option) ==
    Append(setlock_calls, [op |-> op, arg |-> arg, result |-> result, option |-> option])

\* set lines 27-35
set(x) ==
    /\ Len(setlock_calls) < MaxSetLockCalls
    /\ IF SetLockStores(setlock_data)
       THEN /\ setlock_data' = Some(x)
            /\ setlock_calls' = Called("set", x, "Ok", None)
       ELSE /\ UNCHANGED setlock_data
            /\ setlock_calls' = Called("set", x, "AlreadySet", None)
    /\ UNCHANGED <<svcVars, pass, builderVars, eventVars, observableVars, repeaterVars>>
    /\ UNCHANGED <<queryVars, joinVars>>

\* get lines 49-51: a call of get(), which is recorded with what it returned.
get_call ==
    /\ Len(setlock_calls) < MaxSetLockCalls
    /\ setlock_calls' = Called("get", 0, "Option", get)
    /\ UNCHANGED setlock_data
    /\ UNCHANGED <<svcVars, pass, builderVars, eventVars, observableVars, repeaterVars>>
    /\ UNCHANGED <<queryVars, joinVars>>

\* get_mut / unwrap_mut lines 45-47 and 53-55: the holder of the &mut T writes x
\* over the data (unwrap_mut panics when there is none).
write_through(x) ==
    /\ Len(setlock_calls) < MaxSetLockCalls
    /\ is_set
    /\ setlock_data' = Some(x)
    /\ setlock_calls' = Called("get_mut", x, "Ok", None)
    /\ UNCHANGED <<svcVars, pass, builderVars, eventVars, observableVars, repeaterVars>>
    /\ UNCHANGED <<queryVars, joinVars>>

SetLockInit == ServicesAtRest /\ AuxInit

SetLockNext ==
    \/ \E x \in SetLockValues : set(x)
    \/ get_call
    \/ \E x \in SetLockValues : write_through(x)

SetLockSpec == SetLockInit /\ [][SetLockNext]_vars

\* The calls of the given operation, in the order in which they were made.
CallsOf(op) == SelectSeq(setlock_calls, LAMBDA c : c.op = op)

\* C23: a new cell holds nothing and get() returns nothing until the first set(x),
\* which returns Ok and stores x; every later set(y) returns AlreadySet and leaves
\* the data as it is, and the data never goes back to nothing; get() returns the
\* data, which is x as long as nothing was written through get_mut / unwrap_mut.
C23_WriteOnce ==
    LET sets == CallsOf("set")
        gets == CallsOf("get")
    IN  /\ setlock_calls = <<>> => get = None
        /\ is_set <=> sets # <<>>
        /\ \A k \in 1..Len(sets) : sets[k].result = IF k = 1 THEN "Ok" ELSE "AlreadySet"
        /\ (sets # <<>> /\ CallsOf("get_mut") = <<>>) => get = Some(sets[1].arg)
        /\ \A k \in 1..Len(setlock_calls) :
              LET c == setlock_calls[k]
                  before == SubSeq(setlock_calls, 1, k - 1)
                  writes == SelectSeq(before, LAMBDA d : d.op = "get_mut" \/ d.result = "Ok")
              IN  c.op = "get" =>
                     c.option = IF writes = <<>> THEN None
                                ELSE Some(writes[Len(writes)].arg)

\* A set(x) was followed by set(y) with another y, which was refused, and by a
\* third set; the get() after them returned x.
C23_Witness ==
    /\ Len(setlock_calls) = MaxSetLockCalls
    /\ \A k \in 1..(Len(setlock_calls) - 1) : setlock_calls[k].op = "set"
    /\ setlock_calls[1].arg # setlock_calls[2].arg
    /\ setlock_calls[2].result = "AlreadySet"
    /\ setlock_calls[Len(setlock_calls)].op = "get"
    /\ setlock_calls[Len(setlock_calls)].option = Some(setlock_calls[1].arg)

(***************************************************************************)
(* ServiceManager::get_service and ServiceManager::status_overview          *)
(*                                                                         *)
(* Both walk the registry and read each service under its mutex, so they    *)
(* wait for a start_service / stop_service call that holds a service.  One  *)
(* task makes these calls while another one starts and stops services and   *)
(* the watchdogs run.                                                       *)
(***************************************************************************)

\* The task that calls get_service() and status_overview().
QueryCaller == CHOOSE c \in Callers : \A d \in Callers : d <= c

\* The five lists of status_overview lines 260-264.
Lists ==
    {"failed_essentials", "failed_optionals", "non_failed_essentials",
     "non_failed_optionals", "others"}

\* A call is made: nothing is found or listed yet.
Asked(op, ty) ==
    [op |-> op, asked |-> ty, option |-> None, lists |-> [l \in Lists |-> <<>>],
     text |-> <<>>, returned |-> FALSE]

\* get_service line 217: lock.as_any().is::<T>()
is_t(s, ty) == concrete_type[s] = ty

get_service_call(c, ty) ==
    /\ callers[c].pc = "idle"
    /\ callers' = Enter(c, "get_service", 0, "find")
    /\ answer' = Asked("get_service", ty)
    /\ UNCHANGED <<priority, hasTask, status, svcLock, background_tasks, watchdog,
                   subscriptions, concrete_type, setlockVars, joinVars>>
    /\ UNCHANGED <<pass, builderVars, eventVars, observableVars, repeaterVars>>

\* get_service lines 215-235, one turn of the loop: lock the i-th registered
\* service and test its type.  The first service of the type is returned, and None
\* when the loop ends; the call waits while the service's mutex is held.
get_service_step(c) ==
    /\ callers[c].pc = "find"
    /\ LET i == callers[c].idx
       IN  /\ svcLock[services[i]] = 0
           /\ IF is_t(services[i], answer.asked)
              THEN /\ callers' = Return(c, "Some", "none")
                   /\ answer' = [answer EXCEPT !.option = Some(services[i]),
                                               !.returned = TRUE]
              ELSE IF i < Len(services)
              THEN /\ callers' = [callers EXCEPT ![c].idx = i + 1]
                   /\ UNCHANGED answer
              ELSE /\ callers' = Return(c, "None", "none")
                   /\ answer' = [answer EXCEPT !.returned = TRUE]
    /\ UNCHANGED <<priority, hasTask, status, svcLock, background_tasks, watchdog,
                   subscriptions, concrete_type, setlockVars, joinVars>>
    /\ UNCHANGED <<pass, builderVars, eventVars, observableVars, repeaterVars>>

\* impl Display for Status (types.rs lines 32-44): the words written for the
\* variant, followed by the reason that a failure variant carries.
Display(st) ==
    CASE st.tag = "Started" -> <<"Started">>
      [] st.tag = "Stopped" -> <<"Stopped">>
      [] st.tag = "Starting" -> <<"Starting">>
      [] st.tag = "Stopping" -> <<"Stopping">>
      [] st.tag = "FailedToStart" -> <<"Failed to start: ", st.reason>>
      [] st.tag = "FailedToStop" -> <<"Failed to stop: ", st.reason>>
      [] st.tag = "RuntimeError" -> <<"Runtime error: ", st.reason>>

\* The pieces of the text that status_overview builds.
Piece(kind, service, words) == [kind |-> kind, service |-> service, words |-> words]

\* format!(" - {}: {}", info.name, status), with the status as it was read.
Entry(s, st) == [Piece("entry", s, Display(st)) EXCEPT !.words = <<" - ", s, ": ">> \o @]

\* format!("{}:\n", title): the title of a section, with the line break after it.
Header(title) == <<Piece("header", 0, <<title, ":">>), Piece("newline", 0, <<"\n">>)>>

Newline == Piece("newline", 0, <<"\n">>)

\* Only the two start / stop failures count as failed.
IsFailed_NoRuntimeError(st) == st.tag \in {"FailedToStart", "FailedToStop"}

\* status_overview line 281
IsFailed(st) == st.tag \in {"FailedToStart", "FailedToStop", "RuntimeError"}

\* A failed stop counts as non-failed too.
IsNonFailed_OrFailedToStop(st) == st.tag \in {"Started", "Stopped", "FailedToStop"}

\* status_overview line 273
IsNonFailed(st) == st.tag \in {"Started", "Stopped"}

\* status_overview lines 272-294: the list that the entry of a service is pushed to.
ListOf(prio, st) ==
    IF IsNonFailed(st)
    THEN (IF prio = "Essential" THEN "non_failed_essentials" ELSE "non_failed_optionals")
    ELSE IF IsFailed(st)
    THEN (IF prio = "Essential" THEN "failed_essentials" ELSE "failed_optionals")
    ELSE "others"

\* Vec::join("\n"): the entries with a line break between each two of them, and
\* none after the last.
RECURSIVE Join(_)
Join(entries) ==
    IF entries = <<>> THEN <<>>
    ELSE IF Len(entries) = 1 THEN entries
    ELSE <<Head(entries), Newline>> \o Join(Tail(entries))

\* status_overview lines 297-300 (and 302-320): a list that is not empty is written
\* as its title and its joined entries.
Section(title, entries) ==
    IF entries = <<>> THEN <<>> ELSE Header(title) \o Join(entries)

\* status_overview lines 297-320: text_buffer after the five lists were written.
TextBuffer(lists) ==
    Section("Failed essential services", lists["failed_essentials"])
       \o Section("Failed optional services", lists["failed_optionals"])
       \o Section("Essential services", lists["non_failed_essentials"])
       \o Section("Optional services", lists["non_failed_optionals"])
       \o Section("Other services", lists["others"])

\* status_overview lines 322-331: the headline and the rule under it, which is as
\* wide as the longest line of the text, are put in front.
Headline ==
    <<Piece("headline", 0, <<"Status overview">>), Newline,
      Piece("rule", 0, <<"longest_width">>), Newline>>

status_overview_call(c) ==
    /\ callers[c].pc = "idle"
    /\ callers' = Enter(c, "status_overview", 0, "list")
    /\ answer' = Asked("status_overview", 0)
    /\ UNCHANGED <<priority, hasTask, status, svcLock, background_tasks, watchdog,
                   subscriptions, concrete_type, setlockVars, joinVars>>
    /\ UNCHANGED <<pass, builderVars, eventVars, observableVars, repeaterVars>>

\* status_overview lines 266-333, one turn of the loop: lock the i-th registered
\* service, read its priority and status and push its entry to one of the lists;
\* after the last service the text is built and returned.  The call waits while
\* the service's mutex is held.
status_overview_step(c) ==
    /\ callers[c].pc = "list"
    /\ LET i == callers[c].idx
           s == services[i]
           lists == [answer.lists EXCEPT ![ListOf(priority[s], status[s])] =
                        Append(@, Entry(s, status[s]))]
       IN  /\ svcLock[s] = 0
           /\ IF i < Len(services)
              THEN /\ callers' = [callers EXCEPT ![c].idx = i + 1]
                   /\ answer' = [answer EXCEPT !.lists = lists]
              ELSE /\ callers' = Return(c, "String", "none")
                   /\ answer' = [answer EXCEPT !.lists = lists,
                                               !.text = Headline \o TextBuffer(lists),
                                               !.returned = TRUE]
    /\ UNCHANGED <<priority, hasTask, status, svcLock, background_tasks, watchdog,
                   subscriptions, concrete_type, setlockVars, joinVars>>
    /\ UNCHANGED <<pass, builderVars, eventVars, observableVars, repeaterVars>>

\* A supervisor whose services have any types and priorities and all declare a
\* background task.
QueryInit ==
    /\ pass = NoPass
    /\ NewBuilder
    /\ NewEvents
    /\ NewObservable
    /\ NewRepeater
    /\ NewSetLock
    /\ NewJoin
    /\ answer = NoAnswer
    /\ concrete_type \in {ct \in [AllServices -> ServiceTypes] :
                             ct[Unmanaged] = NewTypes[Unmanaged]}
    /\ priority \in {p \in [AllServices -> Priorities] : p[Unmanaged] = "Optional"}
    /\ hasTask = [s \in AllServices |-> s \in Managed]
    /\ status = [s \in AllServices |-> Stopped]
    /\ svcLock = [s \in AllServices |-> 0]
    /\ background_tasks = {}
    /\ watchdog = [s \in AllServices |-> "none"]
    /\ subscriptions = {}
    /\ callers = [c \in Callers |-> IdleCaller]

QueryNext ==
    \/ \E s \in Managed : start_service_call(PassCaller, s)
    \/ \E s \in Managed : stop_service_call(PassCaller, s)
    \/ manages_service_step(PassCaller)
    \/ start_service_begin(PassCaller)
    \/ \E o \in Outcomes : start_service_resolve(PassCaller, o)
    \/ stop_service_begin(PassCaller)
    \/ \E o \in Outcomes : stop_service_resolve(PassCaller, o)
    \/ \E s \in Managed, r \in TaskResults : task_resolve(s, r)
    \/ \E s \in Managed : watchdog_continuation(s)
    \/ \E ty \in ServiceTypes : get_service_call(QueryCaller, ty)
    \/ get_service_step(QueryCaller)
    \/ status_overview_call(QueryCaller)
    \/ status_overview_step(QueryCaller)

QuerySpec == QueryInit /\ [][QueryNext]_vars

\* The positions of the registry whose service is of the given type.
Matches(ty) == {i \in 1..Len(services) : concrete_type[services[i]] = ty}

\* C24: a get_service call for a type returns the registered service of that type
\* when exactly one registered service has it, and None when no registered service
\* or more than one has it.
C24_SingleMatchOrNone ==
    (answer.op = "get_service" /\ answer.returned) =>
       answer.option =
          IF Cardinality(Matches(answer.asked)) = 1
          THEN Some(services[CHOOSE i \in Matches(answer.asked) : TRUE])
          ELSE None

\* The order in which status_overview writes its sections.
SectionOrder ==
    <<"Failed essential services", "Failed optional services", "Essential services",
      "Optional services", "Other services">>

Rank(title) == CHOOSE i \in 1..Len(SectionOrder) : SectionOrder[i] = title

\* The title of the section in which the k-th piece of the text stands: the last
\* title before it.
SectionAt(text, k) ==
    LET before == {j \in 1..k : text[j].kind = "header"}
    IN  IF before = {} THEN "none"
        ELSE text[CHOOSE j \in before : \A h \in before : h <= j].words[1]

\* The section that a service of the given priority belongs to, by the status that
\* its entry shows.
SectionFor(prio, shown) ==
    IF shown \in {"Failed to start: ", "Failed to stop: ", "Runtime error: "}
    THEN (IF prio = "Essential" THEN "Failed essential services"
          ELSE "Failed optional services")
    ELSE IF shown \in {"Starting", "Stopping"} THEN "Other services"
    ELSE (IF prio = "Essential" THEN "Essential services" ELSE "Optional services")

\* The status that an entry shows: the words that follow " - ", the name and ": ".
Shown(entry) == entry.words[Len(<<" - ", entry.service, ": ">>) + 1]

\* The returned text lists every registered service once and nothing else, each
\* under the title that belongs to its priority and the status shown; the titles
\* stand in the order of SectionOrder, and each is followed by an entry.
OverviewInOrder(text) ==
    /\ \A s \in AllServices :
          Cardinality({k \in 1..Len(text) :
                          text[k].kind = "entry" /\ text[k].service = s})
             = IF s \in Managed THEN 1 ELSE 0
    /\ \A k \in 1..Len(text) :
          text[k].kind = "entry" =>
             SectionAt(text, k) = SectionFor(priority[text[k].service], Shown(text[k]))
    /\ \A j, k \in 1..Len(text) :
          (j < k /\ text[j].kind = "header" /\ text[k].kind = "header")
             => Rank(text[j].words[1]) < Rank(text[k].words[1])
    /\ \A k \in 1..Len(text) :
          text[k].kind = "header" =>
             /\ k + 2 <= Len(text)
             /\ text[k + 1].kind = "newline"
             /\ text[k + 2].kind = "entry"

\* A turn of the loop of status_overview is taken in this step.
OverviewTurn ==
    /\ callers[QueryCaller].pc = "list"
    /\ callers'[QueryCaller] # callers[QueryCaller]

\* C25: every turn of the loop of status_overview appends one entry, which shows the
\* name of the service at hand and the status it has at that moment, to one list
\* and leaves the other lists; and the text returned lists every registered service
\* exactly once, under failed essential / failed optional when its entry shows
\* FailedToStart, FailedToStop or RuntimeError, under other when it shows Starting
\* or Stopping and under essential / optional otherwise, with the sections in the
\* order failed essential, failed optional, essential, optional, other, and no
\* section without an entry.
C25_OverviewSections ==
    [][/\ OverviewTurn =>
            LET s == services[callers[QueryCaller].idx]
            IN  \E l \in Lists :
                   /\ answer'.lists[l] = Append(answer.lists[l], Entry(s, status[s]))
                   /\ Shown(Entry(s, status[s])) = Display(status[s])[1]
                   /\ \A m \in Lists \ {l} : answer'.lists[m] = answer.lists[m]
       /\ (answer'.op = "status_overview" /\ answer'.returned)
             => OverviewInOrder(answer'.text)]_vars

\* status_overview has returned a text with two sections: the Essential service
\* under the failed essential services with a runtime error, after it the Optional
\* service under the optional services as Stopped.
C25_Witness ==
    /\ answer.op = "status_overview"
    /\ answer.returned
    /\ \E j, k \in 1..Len(answer.text) :
          /\ j < k
          /\ answer.text[j].kind = "entry"
          /\ answer.text[k].kind = "entry"
          /\ Shown(answer.text[j]) = "Runtime error: "
          /\ SectionAt(answer.text, j) = "Failed essential services"
          /\ Shown(answer.text[k]) = "Stopped"
          /\ SectionAt(answer.text, k) = "Optional services"

\* No status_overview call finds a service in Starting or Stopping: these statuses
\* last only while start_service / stop_service holds the mutex of the service,
\* which status_overview waits for.
TransientNeverListed ==
    answer.op = "status_overview" => answer.lists["others"] = <<>>

(***************************************************************************)
(* The attachments of the status observables to on_status_change            *)
(***************************************************************************)

\* A start_service or stop_service call for the service has been made and has not
\* returned.
InProgress(s) ==
    \E c \in Callers :
        /\ callers[c].pc # "idle"
        /\ callers[c].op \in {"start", "stop"}
        /\ callers[c].svc = s

\* C26: whenever no start_service or stop_service call is in progress for a
\* registered service, its status observable is attached to the repeater exactly
\* when its status is Started.
C26_AttachedIffStarted ==
    \A s \in Managed :
        ~InProgress(s) => (s \in subscriptions <=> status[s].tag = "Started")

\* What the code keeps instead: a status observable is attached exactly when the
\* status is not Stopped.  start_service attaches before it sets Starting, and only
\* a stop_service call that ends in Stopped detaches.
AttachedIffNotStopped ==
    \A s \in AllServices : s \in subscriptions <=> status[s].tag # "Stopped"

\* C27: a stop_service call that passed its precondition checks returns with the
\* service's status observable detached from the repeater and without an entry
\* for the service in the background-task table, whatever stop() resolved to.
C27_StopDetaches ==
    [][\A c \in Callers :
         ( /\ callers[c].pc = "run"
           /\ callers[c].op = "stop"
           /\ callers'[c] # callers[c] )
         => /\ callers'[c].pc = "idle"
            /\ callers[c].svc \notin subscriptions'
            /\ callers[c].svc \notin background_tasks']_vars

\* What the code keeps instead: the entry of the background task is gone when the
\* call returns, and the observable is detached exactly when the call returns Ok.
StopDetachesOnSuccess ==
    [][\A c \in Callers :
         ( /\ callers[c].pc = "run"
           /\ callers[c].op = "stop"
           /\ callers'[c] # callers[c] )
         => /\ callers'[c].pc = "idle"
            /\ callers[c].svc \notin background_tasks'
            /\ callers[c].svc \notin subscriptions' <=> callers'[c].res = "Ok"]_vars

(***************************************************************************)
(* Bot::join: a crash reaches the waiting process through the aggregate    *)
(* status stream                                                           *)
(*                                                                         *)
(* start_service attaches the service's status event to the supervisor's   *)
(* EventRepeater (a channel of AttachBuffer values and a forwarding task   *)
(* per service); Bot::join subscribes a channel of JoinBuffer values to    *)
(* the repeater's event and spawns a task that runs overall_status() for   *)
(* every value it receives.  A dispatch sends under the lock of the        *)
(* subscriber list and waits while the channel is full; the value of an    *)
(* Observable is set, and dispatched, under the service's mutex.           *)
(***************************************************************************)

\* start_service line 130: attach(&service_status_event, 2).
AttachBuffer == 2

\* Bot::join line 107: subscribe_channel("t", 2, true, true).
JoinBuffer == 2

\* The holder of a service's mutex that is the continuation of its watchdog.
WatchdogTask == NumCallers + 1

\* Event::dispatch on a service's status event: the send to the channel of the
\* repeater's subscription waits while the channel is full.
HasRoom(s) == forwards[s].attached /\ Len(forwards[s].queue) < AttachBuffer

\* Observable::set under the service's mutex: the value is stored and dispatched
\* to the attachment's channel.
Dispatched(s, v) == [forwards EXCEPT ![s].queue = Append(@, v)]

\* Bot::join lines 103-117: the subscription exists and the status task runs.
Waiting == join.pc \in {"recv", "overall"}

\* start_services lines 188-193: the services are started one after the other, in
\* the order of the registry; the next one is the first that is still Stopped.
NextToStart(s) ==
    /\ join.pc = "none"
    /\ \A t \in Managed : svcLock[t] # PassCaller
    /\ \E i \in 1..Len(services) :
          /\ services[i] = s
          /\ \A j \in 1..(i - 1) : ~StatusEq(status[services[j]], Stopped)

\* start_service lines 119-139 for the services started by Bot::start: the status
\* event is attached, then init_service sets Starting and awaits start() under the
\* service's mutex.
join_start_begin(s) ==
    /\ NextToStart(s)
    /\ svcLock[s] = 0
    /\ StartPrecondition(status[s])
    /\ ~has_background_task_registered(s)
    /\ ~AlreadyAttached(s)
    /\ subscriptions' = subscriptions \cup {s}
    /\ svcLock' = [svcLock EXCEPT ![s] = PassCaller]
    /\ status' = [status EXCEPT ![s] = ObservableSet(@, Starting)]
    /\ forwards' = [forwards EXCEPT ![s] =
                       [attached |-> TRUE, queue |-> <<Starting>>, pc |-> "recv",
                        value |-> Stopped]]
    /\ UNCHANGED <<priority, hasTask, background_tasks, watchdog, callers, join>>
    /\ UNCHANGED <<pass, builderVars, eventVars, observableVars, repeaterVars,
                   setlockVars, queryVars>>

\* start_service lines 139-145: start() resolved or timed out, the status is set
\* and dispatched, the watchdog is spawned after a start that succeeded.
join_start_resolve(s, o) ==
    /\ svcLock[s] = PassCaller
    /\ HasRoom(s)
    /\ status' = [status EXCEPT ![s] = ObservableSet(@, InitServiceStatus(o))]
    /\ forwards' = Dispatched(s, InitServiceStatus(o))
    /\ IF o = "ok" /\ SpawnsWatchdog(s)
       THEN /\ background_tasks' = background_tasks \cup {s}
            /\ watchdog' = [watchdog EXCEPT ![s] = "pending"]
       ELSE UNCHANGED <<background_tasks, watchdog>>
    /\ svcLock' = [svcLock EXCEPT ![s] = 0]
    /\ UNCHANGED <<priority, hasTask, subscriptions, callers, join>>
    /\ UNCHANGED <<pass, builderVars, eventVars, observableVars, repeaterVars,
                   setlockVars, queryVars>>

\* The background task of a service resolves; it is noted when that happens while
\* Bot::join waits.
join_task_resolve(s, r) ==
    /\ watchdog[s] = "pending"
    /\ watchdog' = [watchdog EXCEPT ![s] = IF r = "ok" THEN "resolved_ok" ELSE "resolved_err"]
    /\ join' = IF Waiting THEN [join EXCEPT !.crashed = @ \cup {s}] ELSE join
    /\ UNCHANGED <<priority, hasTask, status, svcLock, background_tasks, subscriptions,
                   callers, forwards>>
    /\ UNCHANGED <<pass, builderVars, eventVars, observableVars, repeaterVars,
                   setlockVars, queryVars>>

\* start_background_task line 460: the continuation of the watchdog locks the
\* service.
watchdog_lock(s) ==
    /\ Resolved(s)
    /\ svcLock[s] = 0
    /\ svcLock' = [svcLock EXCEPT ![s] = WatchdogTask]
    /\ UNCHANGED <<priority, hasTask, status, background_tasks, watchdog, subscriptions,
                   callers, joinVars>>
    /\ UNCHANGED <<pass, builderVars, eventVars, observableVars, repeaterVars,
                   setlockVars, queryVars>>

\* start_background_task lines 462-491: RuntimeError is set and dispatched, which
\* waits while the attachment's channel is full, then the mutex is released.
watchdog_set(s) ==
    /\ svcLock[s] = WatchdogTask
    /\ HasRoom(s)
    /\ status' = [status EXCEPT ![s] = ObservableSet(@, WatchdogStatus(watchdog[s]))]
    /\ forwards' = Dispatched(s, WatchdogStatus(watchdog[s]))
    /\ watchdog' = [watchdog EXCEPT ![s] = "finished"]
    /\ svcLock' = [svcLock EXCEPT ![s] = 0]
    /\ UNCHANGED <<priority, hasTask, background_tasks, subscriptions, callers, join>>
    /\ UNCHANGED <<pass, builderVars, eventVars, observableVars, repeaterVars,
                   setlockVars, queryVars>>

\* EventRepeater::attach line 129: the forwarding task of a service receives the
\* next value of its channel.
forwarder_recv(s) ==
    /\ forwards[s].pc = "recv"
    /\ forwards[s].queue # <<>>
    /\ forwards' = [forwards EXCEPT ![s] =
                       [@ EXCEPT !.value = Head(forwards[s].queue),
                                 !.queue = Tail(forwards[s].queue),
                                 !.pc = "dispatch"]]
    /\ UNCHANGED <<svcVars, join>>
    /\ UNCHANGED <<pass, builderVars, eventVars, observableVars, repeaterVars,
                   setlockVars, queryVars>>

\* EventRepeater::attach line 130: the forwarding task dispatches the value on the
\* repeater's event.  The only subscriber there is the channel of Bot::join: the
\* send waits while that channel is full; without the subscription, or after its
\* receiver is gone, nothing is sent.
forwarder_dispatch(s) ==
    /\ forwards[s].pc = "dispatch"
    /\ forwards' = [forwards EXCEPT ![s] = [@ EXCEPT !.pc = "recv", !.value = Stopped]]
    /\ IF Waiting
       THEN /\ Len(join.queue) < JoinBuffer
            /\ join' = [join EXCEPT !.queue = Append(@, forwards[s].value),
                                    !.forwarded =
                                        IF forwards[s].value.tag = "RuntimeError"
                                        THEN @ \cup {s} ELSE @]
       ELSE UNCHANGED join
    /\ UNCHANGED svcVars
    /\ UNCHANGED <<pass, builderVars, eventVars, observableVars, repeaterVars,
                   setlockVars, queryVars>>

\* run (lib.rs) lines 23-44: after Bot::start returned, the process goes on only
\* when overall_status() is Healthy.
run_alive ==
    /\ join.pc = "none"
    /\ \A s \in Managed : svcLock[s] = 0 /\ ~StatusEq(status[s], Stopped)
    /\ overall_status = "Healthy"
    /\ join' = [join EXCEPT !.pc = "alive"]
    /\ UNCHANGED <<svcVars, forwards>>
    /\ UNCHANGED <<pass, builderVars, eventVars, observableVars, repeaterVars,
                   setlockVars, queryVars>>

\* Bot::join lines 89-108: the signal task is spawned and the channel is
\* subscribed to the repeater's event; the status task starts to receive.
join_call ==
    /\ join.pc = "alive"
    /\ join' = [join EXCEPT !.pc = "recv"]
    /\ UNCHANGED <<svcVars, forwards>>
    /\ UNCHANGED <<pass, builderVars, eventVars, observableVars, repeaterVars,
                   setlockVars, queryVars>>

\* Bot::join line 110: the status task receives a forwarded status change and
\* calls overall_status().
status_task_recv ==
    /\ join.pc = "recv"
    /\ join.queue # <<>>
    /\ join' = [join EXCEPT !.queue = Tail(@), !.pc = "overall", !.idx = 1]
    /\ UNCHANGED <<svcVars, forwards>>
    /\ UNCHANGED <<pass, builderVars, eventVars, observableVars, repeaterVars,
                   setlockVars, queryVars>>

\* The status task never returns.
StatusTaskAfter_Never(unhealthy, last) == "recv"

\* Bot::join lines 111-114 after one turn of overall_status: the task returns on
\* Unhealthy, takes the next turn, or receives again after Healthy.
StatusTaskAfter(unhealthy, last) ==
    IF unhealthy THEN "done" ELSE IF last THEN "recv" ELSE "overall"

\* Bot::join lines 111-114: one turn of the loop of overall_status in the status
\* task, which locks the i-th registered service.  The receiver is dropped with
\* what its channel holds when the task returns.
status_task_step ==
    /\ join.pc = "overall"
    /\ LET i == join.idx
           after == StatusTaskAfter(EssentialNotStarted(services[i], status),
                                    i = Len(services))
       IN  /\ svcLock[services[i]] = 0
           /\ join' = [join EXCEPT !.pc = after,
                                   !.idx = IF after = "overall" THEN i + 1 ELSE 0,
                                   !.queue = IF after = "done" THEN <<>> ELSE @]
    /\ UNCHANGED <<svcVars, forwards>>
    /\ UNCHANGED <<pass, builderVars, eventVars, observableVars, repeaterVars,
                   setlockVars, queryVars>>

\* Bot::join lines 89-101 and 119-122: select! returns with the arm of a task that
\* finished: the signal task once the process received a SIGINT, which can happen
\* at any time, the status task once it returned.
join_return(reason) ==
    /\ join.pc \in {"recv", "overall", "done"}
    /\ reason = "EssentialServiceFailed" => join.pc = "done"
    /\ join' = [join EXCEPT !.pc = "returned", !.reason = reason, !.queue = <<>>]
    /\ UNCHANGED <<svcVars, forwards>>
    /\ UNCHANGED <<pass, builderVars, eventVars, observableVars, repeaterVars,
                   setlockVars, queryVars>>

ExitReasons == {"SIGINT", "EssentialServiceFailed"}

JoinInit ==
    /\ AuxInit
    /\ priority \in {p \in [AllServices -> Priorities] : p[Unmanaged] = "Optional"}
    /\ hasTask = [s \in AllServices |-> s \in Managed]
    /\ status = [s \in AllServices |-> Stopped]
    /\ svcLock = [s \in AllServices |-> 0]
    /\ background_tasks = {}
    /\ watchdog = [s \in AllServices |-> "none"]
    /\ subscriptions = {}
    /\ callers = [c \in Callers |-> IdleCaller]

JoinNext ==
    \/ \E s \in Managed : join_start_begin(s)
    \/ \E s \in Managed, o \in Outcomes : join_start_resolve(s, o)
    \/ \E s \in Managed, r \in TaskResults : join_task_resolve(s, r)
    \/ \E s \in Managed : watchdog_lock(s)
    \/ \E s \in Managed : watchdog_set(s)
    \/ \E s \in Managed : forwarder_recv(s)
    \/ \E s \in Managed : forwarder_dispatch(s)
    \/ run_alive
    \/ join_call
    \/ status_task_recv
    \/ status_task_step
    \/ \E reason \in ExitReasons : join_return(reason)

JoinSpec == JoinInit /\ [][JoinNext]_vars

\* The runtime polls every spawned task that can make progress, and select!
\* returns once the status task has finished.  A SIGINT is up to the environment.
FairJoinSpec ==
    /\ JoinSpec
    /\ \A s \in Managed :
          /\ WF_vars(watchdog_lock(s))
          /\ WF_vars(watchdog_set(s))
          /\ WF_vars(forwarder_recv(s))
          /\ WF_vars(forwarder_dispatch(s))
    /\ WF_vars(status_task_recv)
    /\ WF_vars(status_task_step)
    /\ WF_vars(join_return("EssentialServiceFailed"))

\* The RuntimeError status change of the service was sent to the subscription of
\* Bot::join.
Forwarded(s) ==
    s \in join.forwarded

\* The Essential services whose background task resolved while Bot::join waited.
CrashedEssentials == {s \in join.crashed : priority[s] = "Essential"}

\* C28 as stated: when the background task of an Essential service resolves while
\* Bot::join waits, the RuntimeError status change is forwarded to the subscription
\* of join and join returns EssentialServiceFailed.  Nothing is forwarded to the
\* subscription after join returned and its result stays, so a join that returned
\* must have returned EssentialServiceFailed with the change forwarded.
C28_CrashForwardedAndJoinReturns ==
    join.pc = "returned"
       => \A s \in CrashedEssentials :
             Forwarded(s) /\ join.reason = "EssentialServiceFailed"

\* C28 as the code has it: when the background task of an Essential service
\* resolves while Bot::join waits, join eventually returns; it returns
\* EssentialServiceFailed unless a SIGINT was received first, and then the status
\* task had found an Essential service that was not Started.  The status task looks at the services only after it received a
\* forwarded status change.
C28_JoinReturnsOnCrash ==
    /\ (CrashedEssentials # {}) ~> (join.pc = "returned")
    /\ [][join.pc # "returned" /\ join'.pc = "returned"
             => join'.reason = "SIGINT" \/ join.pc = "done"]_vars
    /\ [][join.pc # "done" /\ join'.pc = "done"
             => \E s \in Managed : EssentialNotStarted(s, status)]_vars
    /\ [][join.pc = "recv" /\ join'.pc = "overall"
             => join.queue # <<>> /\ join'.queue = Tail(join.queue)]_vars

\* C28: an Essential service's task resolved while join waited, its RuntimeError
\* status change was forwarded to the subscription and join returned
\* EssentialServiceFailed.
C28_Witness ==
    /\ join.pc = "returned"
    /\ join.reason = "EssentialServiceFailed"
    /\ \E s \in CrashedEssentials : Forwarded(s)

(***************************************************************************)
(* Calls for different services                                            *)
(***************************************************************************)

\* start_service / stop_service: the next step of the call of caller c, whichever
\* it is.
LifecycleStep(c) ==
    \/ manages_service_step(c)
    \/ start_service_begin(c)
    \/ stop_service_begin(c)
    \/ \E o \in Outcomes : start_service_resolve(c, o)
    \/ \E o \in Outcomes : stop_service_resolve(c, o)

\* The call of caller a is suspended inside start() or stop() of its service, and
\* caller b is in a start_service or stop_service call for another registered
\* service.
Unrelated(a, b) ==
    /\ a # b
    /\ callers[a].pc = "run"
    /\ callers[b].pc \in {"manages", "lock", "run"}
    /\ callers[b].op \in {"start", "stop"}
    /\ callers[b].svc \in Managed
    /\ callers[b].svc # callers[a].svc

\* The position of a registered service in the registry.
PositionOf(s) == CHOOSE i \in 1..Len(services) : services[i] = s

\* C29: while start_service(A) is suspended inside A's start(), or stop_service(A)
\* inside A's stop(), a concurrent start_service or stop_service call for a
\* different registered service B can take its next step, and so run to completion,
\* without waiting for A's call to finish, whatever the registration order of A
\* and B.
C29_UnrelatedCallsDoNotWait ==
    \A a, b \in Callers : Unrelated(a, b) => ENABLED LifecycleStep(b)

\* What holds of the code: the call for B does not wait for the call for A when B
\* is registered before A (manages_service returns at B's position before it
\* locks A).
UnrelatedCallsDoNotWaitWhenEarlier ==
    \A a, b \in Callers :
       Unrelated(a, b) /\ callers[a].svc \in Managed
                       /\ PositionOf(callers[b].svc) < PositionOf(callers[a].svc)
          => ENABLED LifecycleStep(b)

(***************************************************************************)
(* Two concurrent calls for the same service                               *)
(*                                                                         *)
(* Every caller makes at most one start_service or stop_service call, all  *)
(* for the same registered service, which is Stopped, or Started by an     *)
(* earlier start_service call, when the calls are made.                    *)
(***************************************************************************)

\* The service the calls are for: the one registered last.
Target == services[Len(services)]

\* The supervisor after build(), or after a start_service call for the target that
\* returned Ok: the status event attached (line 130), the watchdog spawned and
\* stored when the service has a task (lines 451-497).
RaceInit ==
    /\ AuxInit
    /\ priority = [s \in AllServices |-> "Optional"]
    /\ hasTask \in {h \in [AllServices -> BOOLEAN] : \A s \in AllServices \ {Target} : ~h[s]}
    /\ \E started \in BOOLEAN :
          /\ status = [s \in AllServices |-> IF started /\ s = Target THEN Started ELSE Stopped]
          /\ subscriptions = IF started THEN {Target} ELSE {}
          /\ background_tasks = IF started /\ hasTask[Target] THEN {Target} ELSE {}
          /\ watchdog = [s \in AllServices |->
                            IF started /\ s = Target /\ hasTask[Target]
                            THEN "pending" ELSE "none"]
    /\ svcLock = [s \in AllServices |-> 0]
    /\ callers = [c \in Callers |-> IdleCaller]

RaceNext ==
    \/ \E c \in Callers : callers[c].op = "none" /\ start_service_call(c, Target)
    \/ \E c \in Callers : callers[c].op = "none" /\ stop_service_call(c, Target)
    \/ \E c \in Callers : manages_service_step(c)
    \/ \E c \in Callers : start_service_begin(c)
    \/ \E c \in Callers, o \in Outcomes : start_service_resolve(c, o)
    \/ \E c \in Callers : stop_service_begin(c)
    \/ \E c \in Callers, o \in Outcomes : stop_service_resolve(c, o)
    \/ \E r \in TaskResults : task_resolve(Target, r)
    \/ watchdog_continuation(Target)

RaceSpec == RaceInit /\ [][RaceNext]_vars

\* The call of caller c passed its checks and invoked start() (op "start") or
\* stop() (op "stop"): it awaits the future, or it returned with its outcome.
Invoked(c, op) ==
    /\ callers[c].op = op
    /\ callers[c].pc = "run" \/ callers[c].out # "none"

\* The call of caller c has returned.
Finished(c) == callers[c].pc = "idle" /\ callers[c].op # "none"

\* Callers a and b are both inside a call of the operation, made for the same
\* service, whose status is st.
Concurrent(a, b, op, st) ==
    /\ a # b
    /\ callers[a].op = op /\ callers[a].pc # "idle"
    /\ callers[b].op = op /\ callers[b].pc # "idle"
    /\ callers[a].svc = callers[b].svc
    /\ StatusEq(status[callers[a].svc], st)

\* No caller but a and b has made a call.
OnlyCalls(a, b) == \A d \in Callers \ {a, b} : callers[d].op = "none"

\* start() / stop() is not invoked by both calls, and once both have returned it
\* was invoked by exactly one of them and the other returned the precondition
\* error.
ExactlyOnce(a, b, op, error) ==
    /\ ~(Invoked(a, op) /\ Invoked(b, op))
    /\ Finished(a) /\ Finished(b)
          => \/ Invoked(a, op) /\ callers[b].res = error /\ callers[b].out = "none"
             \/ Invoked(b, op) /\ callers[a].res = error /\ callers[a].out = "none"

C30_StopWitness ==
    \E a, b \in Callers :
       /\ a # b
       /\ Finished(a) /\ Finished(b)
       /\ Invoked(a, "stop") /\ callers[a].res = "Ok"
       /\ callers[b].op = "stop" /\ callers[b].res = "ServiceNotStarted"

(***************************************************************************)
(* Failure states                                                          *)
(***************************************************************************)

\* Status::FailedToStart, Status::FailedToStop, Status::RuntimeError.
IsFailure(st) == st.tag \in {"FailedToStart", "FailedToStop", "RuntimeError"}

StartReturns(c) ==
    /\ callers[c].pc = "run"
    /\ callers[c].op = "start"
    /\ callers'[c].pc = "idle"

\* C32: when start_service returns Ok, the service's status is Started, its status
\* observable is attached to the aggregate repeater, and the background-task table
\* holds an entry for its id if and only if task() returned a task; when it
\* returns FailedToStartService, no watchdog was spawned and no entry was added to
\* the table.
C32_StartPostcondition ==
    [][\A c \in Callers :
          StartReturns(c)
             => LET s == callers[c].svc
                IN  /\ callers'[c].res \in {"Ok", "FailedToStartService"}
                    /\ callers'[c].res = "Ok"
                          => /\ StatusEq(status'[s], Started)
                             /\ s \in subscriptions'
                             /\ s \in background_tasks' <=> hasTask[s]
                             /\ hasTask[s] => watchdog'[s] = "pending"
                    /\ callers'[c].res = "FailedToStartService"
                          => /\ watchdog'[s] = watchdog[s]
                             /\ watchdog'[s] # "pending"
                             /\ background_tasks' = background_tasks
                             /\ s \notin background_tasks']_vars

\* C32: a start_service call returned Ok for a service with a task and another one
\* returned Ok for a service without: the first has its table entry, the second
\* has none, both are Started and attached.
C32_Witness ==
    /\ \A c \in Callers : callers[c].pc = "idle" /\ callers[c].op = "start"
                             /\ callers[c].res = "Ok"
    /\ \A s \in Managed : StatusEq(status[s], Started) /\ s \in subscriptions
    /\ \E s, t \in Managed :
          /\ hasTask[s] /\ has_background_task_registered(s)
          /\ ~hasTask[t] /\ ~has_background_task_registered(t)

(***************************************************************************)
(* ServiceManager.weak: the self-reference of the supervisor               *)
(*                                                                         *)
(* build() returns the only Arc of the supervisor.  Its holders clone and  *)
(* drop it; a call of start_service is made through one of them.  The      *)
(* field is private and nothing but build() calls set() on it (OnceLock is *)
(* std's: set() stores into an empty cell only, and there is no way to     *)
(* empty it through a shared reference).                                   *)
(***************************************************************************)

\* Number of Arcs of the supervisor held at a time.
MaxArcs == 3

\* init_service lines 344-362: weak.get() and upgrade() of what it holds, which
\* gives an Arc as long as some Arc of the supervisor is alive.
WeakLookup(w) ==
    IF ~w.cell.some THEN "None"
    ELSE IF w.strong = 0 THEN "not upgradable"
    ELSE "arc"

\* Arc::clone of the supervisor, as in Bot::join line 102.
arc_clone ==
    /\ builder_pc = "built"
    /\ weak.strong \in 1..(MaxArcs - 1)
    /\ weak' = [weak EXCEPT !.strong = @ + 1]
    /\ UNCHANGED <<builder_services, builder_added, builder_pc>>
    /\ UNCHANGED otherThanBuilder

\* An Arc of the supervisor is dropped; with the last one the supervisor is.
arc_drop ==
    /\ builder_pc = "built"
    /\ weak.strong > 0
    /\ weak' = [weak EXCEPT !.strong = @ - 1]
    /\ UNCHANGED <<builder_services, builder_added, builder_pc>>
    /\ UNCHANGED otherThanBuilder

\* start_service line 139 -> init_service lines 344-362, called through an Arc of
\* the supervisor: the self-reference is looked up.
init_service_weak ==
    /\ builder_pc = "built"
    /\ weak.strong > 0
    /\ weak' = [weak EXCEPT !.lookup = WeakLookup(weak)]
    /\ UNCHANGED <<builder_services, builder_added, builder_pc>>
    /\ UNCHANGED otherThanBuilder

WeakNext ==
    \/ \E o \in ServiceObjects : with_service(o)
    \/ build
    \/ arc_clone
    \/ arc_drop
    \/ init_service_weak

WeakSpec == BuilderInit /\ [][WeakNext]_vars

\* C33: for every supervisor returned by the builder, the self-reference cell was
\* set once, with success, before build() returned, and it keeps what it holds;
\* every init_service of a start_service call finds the self-reference present
\* and upgradable, so the abort paths for a missing self-reference are not
\* reached.
C33_SelfReferenceSet ==
    /\ [](builder_pc = "built"
            => /\ weak.cell = [some |-> TRUE, value |-> 1]
               /\ weak.set_results = <<"Ok">>
               /\ weak.lookup \in {"none", "arc"})
    /\ [](builder_pc # "built" => weak = NoWeak)
    /\ [][weak.cell.some => weak'.cell = weak.cell]_vars

\* C33: a supervisor was built, its Arc cloned, and a start_service call found the
\* self-reference.
C33_Witness ==
    /\ builder_pc = "built"
    /\ Len(builder_services) > 1
    /\ weak.strong > 1
    /\ weak.lookup = "arc"


(***************************************************************************)
(* C34: restart after a clean stop.                                        *)
(***************************************************************************)

\* A call has passed every check of start_service (lines 119-136) and runs start().
StartAccepted(c) ==
    /\ callers[c].pc = "lock"
    /\ callers[c].op = "start"
    /\ callers'[c] # callers[c]
    => callers'[c].pc = "run"

\* C34: a registered service whose status is Stopped has no entry in the
\* background-task table and its status event is not attached to the repeater, so
\* a start_service call that finds it Stopped never returns
\* BackgroundTaskAlreadyRunning or StatusAttachmentFailed: it goes on to start().
C34_RestartAfterCleanStop ==
    /\ [](\A s \in Managed :
            StatusEq(status[s], Stopped)
            => ~has_background_task_registered(s) /\ s \notin subscriptions)
    /\ [][\A c \in Callers :
            callers[c].svc \in Managed /\ StatusEq(status[callers[c].svc], Stopped)
            => StartAccepted(c)]_vars

\* start() runs for a service while the last call of another caller was a
\* stop_service that returned Ok and no other registered service is Stopped: the
\* service stopped by that call has been started again.
C34_Witness ==
    \E c, d \in Callers :
        /\ callers[d].pc = "idle" /\ callers[d].op = "stop" /\ callers[d].res = "Ok"
        /\ callers[c].pc = "run" /\ callers[c].op = "start"
        /\ callers[c].svc \in Managed
        /\ \A s \in Managed \ {callers[c].svc} : ~StatusEq(status[s], Stopped)

(***************************************************************************)
(* C38: the shutdown pass over a crashed service.                          *)
(***************************************************************************)

\* The watchdog's continuation has set RuntimeError for the service.
Crashed(s) == status[s].tag = "RuntimeError"

\* stop() of the service is being awaited by a stop_service call.
StopInvoked(s) ==
    \E c \in Callers :
        callers[c].pc = "run" /\ callers[c].op = "stop" /\ callers[c].svc = s

EntriesOf(l) == {answer.lists[l][k] : k \in 1..Len(answer.lists[l])}

\* The services listed under "Essential services" (non_failed_essentials).
ListedEssential == {e.service : e \in EntriesOf("non_failed_essentials")}

\* The services listed under "Essential services" with the status Started.
ListedStarted ==
    {e.service : e \in {x \in EntriesOf("non_failed_essentials") : Shown(x) = "Started"}}

\* The registered services of priority Essential.
Essentials == {s \in Managed : priority[s] = "Essential"}

\* status_overview has returned and every service still has the status that its
\* entry shows, so that overall_status() reads the same statuses.
OverviewCurrent ==
    /\ answer.op = "status_overview"
    /\ answer.returned
    /\ \A l \in Lists : \A e \in EntriesOf(l) : e = Entry(e.service, status[e.service])

\* C39 as stated: every service listed under the non-failed essential services is
\* Started, and overall_status() is Healthy exactly when every Essential service is
\* listed there.
C39_OverviewAgrees ==
    OverviewCurrent =>
       /\ \A s \in ListedEssential : StatusEq(status[s], Started)
       /\ overall_status = "Healthy" <=> Essentials \subseteq ListedEssential

\* C39, amended: every service listed under the non-failed essential services is
\* Essential and Started or Stopped; overall_status() is Healthy exactly when every
\* Essential service is listed there as Started, so a Healthy supervisor has all its
\* Essential services in that section, but not the other way round.
C39_OverviewAgreesOnStarted ==
    OverviewCurrent =>
       /\ \A s \in ListedEssential :
             /\ priority[s] = "Essential"
             /\ StatusEq(status[s], Started) \/ StatusEq(status[s], Stopped)
       /\ overall_status = "Healthy" <=> Essentials \subseteq ListedStarted
       /\ overall_status = "Healthy" => Essentials \subseteq ListedEssential

\* status_overview has listed two Essential services under the non-failed essential
\* services, one Started and one Stopped, and overall_status() is Unhealthy.
C39_Witness ==
    /\ OverviewCurrent
    /\ overall_status = "Unhealthy"
    /\ Essentials \subseteq ListedEssential
    /\ \E s, t \in ListedEssential :
          StatusEq(status[s], Started) /\ StatusEq(status[t], Stopped)

\* status_overview has listed every Essential service as Started and
\* overall_status() is Healthy.
C39_HealthyWitness ==
    /\ OverviewCurrent
    /\ Essentials # {}
    /\ Essentials \subseteq ListedStarted
    /\ overall_status = "Healthy"

(***************************************************************************)
(* C37: the status changes of a stop_service call on the aggregate stream.  *)
(*                                                                         *)
(* The status event of one service is the source.  start_service attaches   *)
(* it; stop_service dispatches Stopping and Stopped on it, the values 1 and  *)
(* 2, and calls detach once the second dispatch has returned.               *)
(***************************************************************************)

\* The values that Observable::set dispatches in stop_service line 167 and in
\* shutdown_service line 406.
StoppingValue == 1
StoppedValue == 2

\* start_service line 130: the status event is attached once.
stop_forward_attach ==
    /\ attach_result = "none"
    /\ attach

\* stop_service line 167 and shutdown_service line 406: the next status is
\* dispatched on the attached event once the dispatch before it has returned.
stop_forward_set ==
    /\ AlreadyAttached("source")
    /\ calls < StoppedValue
    /\ dispatch_call(SourceDispatcher, "source", calls + 1)

\* stop_service lines 171-178: detach is called after set(Stopped) has returned.
stop_forward_detach ==
    /\ calls = StoppedValue
    /\ tasks[SourceDispatcher].pc = "returned"
    /\ AlreadyAttached("source")
    /\ detach

StopForwardNext ==
    \/ stop_forward_attach
    \/ stop_forward_set
    \/ stop_forward_detach
    \/ task_cancelled
    \/ forward_recv
    \/ \E r \in BOOLEAN : register_callback("repeater", r)
    \/ \E d \in Tasks : Polled(d) /\ dispatch_lock(d)
    \/ \E d \in Tasks : Polled(d) /\ dispatch_deliver(d)
    \/ \E d \in Tasks : Polled(d) /\ dispatch_finish(d)

\* One attached status event through one stop_service call, with the forwarding
\* task and the subscribers of the repeater running beside the call.
StopForwardSpec == DetachInit /\ [][StopForwardNext]_vars

\* C37: once stop_service has detached the status event and the forwarding task is
\* gone, the task has taken both Stopping and Stopped out of its channel, in this
\* order, to dispatch them on the repeater's event.
C37_StoppingAndStoppedForwarded ==
    Detached /\ TaskGone(Forwarder) => forwarded = <<StoppingValue, StoppedValue>>

\* Once the forwarding task is gone nothing more is forwarded.
NothingForwardedAfterAbort ==
    [][TaskGone(Forwarder) /\ attach_result # "none" => forwarded' = forwarded]_vars

\* What the code keeps: the values forwarded are a prefix of Stopping, Stopped, and
\* every subscriber of the repeater is delivered forwarded values only.
ForwardedIsPrefix ==
    /\ \E k \in 0..StoppedValue : forwarded = [i \in 1..k |-> i]
    /\ \A i \in 1..Len(ev_subscribers["repeater"]) :
          \A k \in 1..Len(delivered[ev_subscribers["repeater"][i].id]) :
             \E j \in 1..Len(forwarded) :
                forwarded[j] = delivered[ev_subscribers["repeater"][i].id][k].v

(***************************************************************************)
(* The chain from a status update to the subscriber of the aggregate       *)
(* stream.                                                                 *)
(*                                                                         *)
(* One task calls start_service and stop_service.  Every status update is   *)
(* made under the service's mutex and is sent into the channel of the       *)
(* service's attachment (AttachBuffer values); the forwarding task of the   *)
(* attachment receives it, takes the lock of the subscriber list of the     *)
(* repeater's event and sends it into the channel that Bot::join has        *)
(* subscribed (JoinBuffer values), from which the status task of Bot::join  *)
(* receives before it calls overall_status().                               *)
(***************************************************************************)

\* The task that calls start_service / stop_service.
ChainCaller == PassCaller

\* The forwarding task that holds the lock of the repeater's subscriber list, or 0.
RepeaterLock == ev_lock["repeater"]

\* Bot::join lines 103-108: the channel is subscribed to the repeater's event,
\* which takes the lock of its subscriber list.
chain_subscribe ==
    /\ join.pc = "none"
    /\ RepeaterLock = 0
    /\ join' = [join EXCEPT !.pc = "recv"]
    /\ UNCHANGED <<svcVars, forwards>>
    /\ UNCHANGED <<pass, builderVars, eventVars, observableVars, repeaterVars,
                   setlockVars, queryVars>>

\* start_service lines 116-139: the checks, the attachment with a fresh channel,
\* set(Starting), which is sent into that channel, and the call of start().
chain_start_begin(s) ==
    /\ callers[ChainCaller].pc = "idle"
    /\ svcLock[s] = 0
    /\ IF ~StartPrecondition(status[s])
       THEN /\ callers' = Return(ChainCaller, "ServiceNotStopped", "none")
            /\ UNCHANGED <<status, svcLock, subscriptions, forwards>>
       ELSE IF has_background_task_registered(s)
       THEN /\ callers' = Return(ChainCaller, "BackgroundTaskAlreadyRunning", "none")
            /\ UNCHANGED <<status, svcLock, subscriptions, forwards>>
       ELSE IF AlreadyAttached(s)
       THEN /\ callers' = Return(ChainCaller, "StatusAttachmentFailed", "none")
            /\ UNCHANGED <<status, svcLock, subscriptions, forwards>>
       ELSE /\ subscriptions' = subscriptions \cup {s}
            /\ status' = [status EXCEPT ![s] = ObservableSet(@, Starting)]
            /\ forwards' = [forwards EXCEPT ![s] =
                               [attached |-> TRUE, queue |-> <<Starting>>,
                                pc |-> "recv", value |-> Stopped]]
            /\ svcLock' = [svcLock EXCEPT ![s] = ChainCaller]
            /\ callers' = Enter(ChainCaller, "start", s, "run")
    /\ UNCHANGED <<priority, hasTask, background_tasks, watchdog, join>>
    /\ UNCHANGED <<pass, builderVars, eventVars, observableVars, repeaterVars,
                   setlockVars, queryVars>>

\* start_service lines 139-145: start() resolved or timed out; the status is set,
\* which waits while the attachment's channel is full; the watchdog is spawned
\* after a start that succeeded; the mutex is released.
chain_start_resolve(o) ==
    /\ callers[ChainCaller].pc = "run"
    /\ callers[ChainCaller].op = "start"
    /\ LET s == callers[ChainCaller].svc
       IN  /\ HasRoom(s)
           /\ status' = [status EXCEPT ![s] = ObservableSet(@, InitServiceStatus(o))]
           /\ forwards' = Dispatched(s, InitServiceStatus(o))
           /\ IF InitServiceResult(o) = "Ok" /\ SpawnsWatchdog(s)
              THEN /\ background_tasks' = background_tasks \cup {s}
                   /\ watchdog' = [watchdog EXCEPT ![s] = "pending"]
              ELSE UNCHANGED <<background_tasks, watchdog>>
           /\ svcLock' = [svcLock EXCEPT ![s] = 0]
           /\ callers' = Return(ChainCaller, InitServiceResult(o), o)
    /\ UNCHANGED <<priority, hasTask, subscriptions, join>>
    /\ UNCHANGED <<pass, builderVars, eventVars, observableVars, repeaterVars,
                   setlockVars, queryVars>>

\* stop_service lines 158-165: the mutex is taken, the status checked and the
\* background task aborted and removed.
chain_stop_begin(s) ==
    /\ callers[ChainCaller].pc = "idle"
    /\ svcLock[s] = 0
    /\ IF ~StopPrecondition(status[s])
       THEN /\ callers' = Return(ChainCaller, "ServiceNotStarted", "none")
            /\ UNCHANGED <<svcLock, background_tasks, watchdog>>
       ELSE /\ watchdog' = AbortBackgroundTask(s)
            /\ background_tasks' = RemoveBackgroundTask(s)
            /\ svcLock' = [svcLock EXCEPT ![s] = ChainCaller]
            /\ callers' = Enter(ChainCaller, "stop", s, "stopping")
    /\ UNCHANGED <<priority, hasTask, status, subscriptions, joinVars>>
    /\ UNCHANGED <<pass, builderVars, eventVars, observableVars, repeaterVars,
                   setlockVars, queryVars>>

\* stop_service line 167: set(Stopping), which waits while the attachment's channel
\* is full; then stop() is called.
chain_stop_set ==
    /\ callers[ChainCaller].pc = "stopping"
    /\ LET s == callers[ChainCaller].svc
       IN  /\ HasRoom(s)
           /\ status' = [status EXCEPT ![s] = ObservableSet(@, Stopping)]
           /\ forwards' = Dispatched(s, Stopping)
    /\ callers' = At(ChainCaller, "run")
    /\ UNCHANGED <<priority, hasTask, svcLock, background_tasks, watchdog,
                   subscriptions, join>>
    /\ UNCHANGED <<pass, builderVars, eventVars, observableVars, repeaterVars,
                   setlockVars, queryVars>>

\* shutdown_service lines 400-401: stop() resolved or timed out.
chain_stop_resolve(o) ==
    /\ callers[ChainCaller].pc = "run"
    /\ callers[ChainCaller].op = "stop"
    /\ callers' = [callers EXCEPT ![ChainCaller].pc = "stopped",
                                  ![ChainCaller].out = o]
    /\ UNCHANGED <<priority, hasTask, status, svcLock, background_tasks, watchdog,
                   subscriptions, joinVars>>
    /\ UNCHANGED <<pass, builderVars, eventVars, observableVars, repeaterVars,
                   setlockVars, queryVars>>

\* shutdown_service lines 403-429 and stop_service lines 171-182: the status of
\* the outcome is set, which waits while the attachment's channel is full; after
\* Stopped the status event is detached, which aborts the forwarding task: its
\* channel is dropped with what it holds, and so is the lock of the repeater's
\* subscriber list if the task holds it.  The mutex is released.
chain_stop_finish ==
    /\ callers[ChainCaller].pc = "stopped"
    /\ LET s == callers[ChainCaller].svc
           o == callers[ChainCaller].out
       IN  /\ HasRoom(s)
           /\ status' = [status EXCEPT ![s] = ObservableSet(@, ShutdownServiceStatus(o))]
           /\ svcLock' = [svcLock EXCEPT ![s] = 0]
           /\ callers' = Return(ChainCaller, ShutdownServiceResult(o), o)
           /\ IF ShutdownServiceResult(o) = "Ok"
              THEN /\ subscriptions' = subscriptions \ {s}
                   /\ forwards' = [forwards EXCEPT ![s] = NotForwarded]
                   /\ ev_lock' = [ev_lock EXCEPT !["repeater"] =
                                     IF @ = s THEN 0 ELSE @]
              ELSE /\ forwards' = Dispatched(s, ShutdownServiceStatus(o))
                   /\ UNCHANGED <<subscriptions, ev_lock>>
    /\ UNCHANGED <<priority, hasTask, background_tasks, watchdog, join>>
    /\ UNCHANGED <<ev_subscribers, channel, delivered, registered, calls, tasks>>
    /\ UNCHANGED <<pass, builderVars, observableVars, repeaterVars, setlockVars,
                   queryVars>>

\* Event::dispatch line 91 in the forwarding task: the lock of the repeater's
\* subscriber list is taken.
chain_forward_lock(s) ==
    /\ forwards[s].pc = "dispatch"
    /\ RepeaterLock = 0
    /\ ev_lock' = [ev_lock EXCEPT !["repeater"] = s]
    /\ forwards' = [forwards EXCEPT ![s].pc = "send"]
    /\ UNCHANGED <<svcVars, join>>
    /\ UNCHANGED <<ev_subscribers, channel, delivered, registered, calls, tasks>>
    /\ UNCHANGED <<pass, builderVars, observableVars, repeaterVars, setlockVars,
                   queryVars>>

\* Event::dispatch lines 92-98 in the forwarding task: the value is sent to the
\* channel of Bot::join, which waits while that channel is full; without the
\* subscription, or after its receiver is gone, nothing is sent.  The lock is
\* released and the task receives again.
chain_forward_send(s) ==
    /\ forwards[s].pc = "send"
    /\ IF Waiting
       THEN /\ Len(join.queue) < JoinBuffer
            /\ join' = [join EXCEPT !.queue = Append(@, forwards[s].value)]
       ELSE UNCHANGED join
    /\ ev_lock' = [ev_lock EXCEPT !["repeater"] = 0]
    /\ forwards' = [forwards EXCEPT ![s] = [@ EXCEPT !.pc = "recv", !.value = Stopped]]
    /\ UNCHANGED svcVars
    /\ UNCHANGED <<ev_subscribers, channel, delivered, registered, calls, tasks>>
    /\ UNCHANGED <<pass, builderVars, observableVars, repeaterVars, setlockVars,
                   queryVars>>

\* The calls, the watchdogs and the forwarding tasks, with a subscriber of the
\* aggregate stream that never receives.
StalledNext ==
    \/ chain_subscribe
    \/ \E s \in Managed : chain_start_begin(s)
    \/ \E o \in Outcomes : chain_start_resolve(o)
    \/ \E s \in Managed : chain_stop_begin(s)
    \/ chain_stop_set
    \/ \E o \in Outcomes : chain_stop_resolve(o)
    \/ chain_stop_finish
    \/ \E s \in Managed, r \in TaskResults : task_resolve(s, r)
    \/ \E s \in Managed : watchdog_lock(s)
    \/ \E s \in Managed : watchdog_set(s)
    \/ \E s \in Managed : forwarder_recv(s)
    \/ \E s \in Managed : chain_forward_lock(s)
    \/ \E s \in Managed : chain_forward_send(s)

\* A supervisor whose first registered service is Optional and whose other services
\* are Essential; nothing is started and Bot::join has not been called.
ChainInit ==
    /\ JoinInit
    /\ priority = [s \in AllServices |->
                      IF s \in Managed \ {services[1]} THEN "Essential" ELSE "Optional"]

StalledSpec == ChainInit /\ [][StalledNext]_vars

\* The same with the status task of Bot::join as the subscriber, which receives
\* and calls overall_status() for as long as that returns Healthy.
ChainNext ==
    \/ StalledNext
    \/ status_task_recv
    \/ status_task_step

ChainSpec == ChainInit /\ [][ChainNext]_vars

\* The holder of the service's mutex is at a set() that waits for room in the
\* channel of the attachment.
SetWaits(s) ==
    /\ svcLock[s] # 0
    /\ ~HasRoom(s)
    /\ \/ svcLock[s] = WatchdogTask
       \/ /\ svcLock[s] = ChainCaller
          /\ callers[ChainCaller].pc \in {"stopping", "stopped"}

\* The forwarding task is at a send that waits for room in the channel of Bot::join.
SendWaits(t) ==
    forwards[t].pc = "send" /\ Waiting /\ Len(join.queue) = JoinBuffer

\* The forwarding task of the service cannot receive before the channel of
\* Bot::join has room: it waits at its send, or for the lock that a task waiting
\* at its send holds.
ForwarderWaits(s) ==
    \/ SendWaits(s)
    \/ forwards[s].pc = "dispatch" /\ RepeaterLock # 0 /\ SendWaits(RepeaterLock)

\* A start_service or stop_service call is at a status update that nothing but a
\* receive of the aggregate stream's subscriber can let through.
CallBlocked(s) == SetWaits(s) /\ svcLock[s] = ChainCaller /\ ForwarderWaits(s)

\* C35: no start_service or stop_service call is made to wait by a subscriber of
\* the aggregate stream that does not drain its channel: a call is never at a
\* status update that can go on only after that subscriber has received.
C35_CallsNotBlockedBySubscriber ==
    \A s \in Managed : ~CallBlocked(s)

\* With a subscriber that never receives, a call that is blocked stays blocked.
BlockedForGood ==
    [][\A s \in Managed : CallBlocked(s) => CallBlocked(s)']_vars

\* A start_service call never waits at its status updates: the channel of the
\* attachment is fresh and takes Starting and the status of the outcome.
StartNeverWaits ==
    callers[ChainCaller].pc = "run" /\ callers[ChainCaller].op = "start"
       => HasRoom(callers[ChainCaller].svc)

\* The status task waits for the mutex of a service whose holder waits at a set()
\* for the forwarding task, which waits for the status task to receive.
Deadlock(s) ==
    /\ join.pc = "overall"
    /\ services[join.idx] = s
    /\ SetWaits(s)
    /\ ForwarderWaits(s)

\* C36: the status task of Bot::join, the start_service / stop_service calls, the
\* watchdog continuations and the forwarding tasks never wait for each other in a
\* circle.
C36_NoDeadlock ==
    \A s \in Managed : ~Deadlock(s)

\* None of the tasks of the circle takes a step again.
DeadlockForGood ==
    [][\A s \in Managed :
          Deadlock(s) => Deadlock(s)' /\ UNCHANGED <<join, forwards[s], svcLock[s]>>]_vars

=============================================================================
